---- MODULE Spec2Model ----
\* Bounded-concurrency RPC clients of nvidia-riva/python-clients (C++ clients):
\* the unary harness (NLPClient / RecognizeClient + their main loops) and the
\* streaming harness (StreamingRecognizeClient).
EXTENDS Integers, Sequences, FiniteSets, Bags, TLC

\* ---------------------------------------------------------------- bounds
\* unary runs: files (query lines), iterations, parallel requests
MaxFiles == 2
MaxIterations == 2
MaxParallel == 2
\* streaming runs: files, iterations, samples per file, frames per stream
MaxStreamFiles == 1
MaxStreamIterations == 2
MaxSamples == 2
MaxFrames == 1
\* wav->sample_rate and FLAGS_chunk_duration_ms of the streaming runs
SampleRate == 1000
ChunkDurationMs == 1
\* PostProcessResults on constructed calls: calls, send times, clock range
MaxRecordCalls == 2
MaxSends == 1
MaxTime == 1
\* GenerateRequests / MicrophoneThreadMain on one call: samples of the file,
\* chunks read from the microphone
MaxPacerSamples == 6
MaxMicChunks == 3
\* the clock reading, in ticks, from which the writer is no longer delayed
MaxClock == 8000
\* ReceiveResponses on given frames: frames per call, fragments per frame,
\* alternatives per fragment
MaxAggregateFrames == 2
MaxFragments == 2
MaxAlternatives == 2
\* PrintStats on recorded samples: number of samples, largest latency
MaxStatSamples == 4
MaxLatency == 2
\* Infer on given correlation ids: largest id, number of calls
MaxTrackId == 4
MaxTrackCalls == 6

\* ---------------------------------------------------------------- constants
NoExit == -1
ExitAbort == 134
ExitSegv == 139
NoCall == [id |-> -1, ok |-> TRUE, status |-> "OK"]
\* a run that is past its start-up: a valid command line, endpoint connected
NoStartup ==
  [max_alternatives |-> 1, reachable |-> TRUE, audio_file |-> TRUE,
   audio_device |-> FALSE, output |-> FALSE, queries |-> TRUE]

\* a ThreadPool before its constructor has run: no worker, nothing enqueued;
\* accepted, dequeued, finished and rejected are the history of the tasks
\* Enqueue took, workers popped, workers ran to the end, Enqueue refused
NoPool ==
  [stop_ |-> FALSE, outstanding_tasks_ |-> 0, threads_ |-> <<>>,
   accepted |-> <<>>, dequeued |-> <<>>, finished |-> {}, rejected |-> <<>>]

VARIABLES
  client,                \* which binary runs: "nlp", "asr", "streaming"
  num_files,             \* all_queries.size() / all_wav.size()
  num_iterations,        \* FLAGS_num_iterations
  parallel_requests,     \* FLAGS_parallel_requests / FLAGS_num_parallel_requests
  simulate_realtime_,    \* FLAGS_simulate_realtime (streaming)
  print_transcripts_,    \* FLAGS_print_transcripts (streaming)
  interim_results_,      \* FLAGS_interim_results (streaming)
  startup,               \* what main() is started with: flags given, endpoint reachable
  main_pc,               \* position of main()
  exit_code,             \* process exit code, NoExit while running
  latencies_,            \* std::vector<double> of latency samples
  succeeded_log,         \* history: bag of corr ids of the calls that ended OK
  failed_log,            \* history: bag of corr ids of the calls that ended not OK
  \* unary clients
  all_query_i,           \* next payload index of the dispatch loop
  curr_tasks_,           \* std::set<uint32_t> of tracked correlation ids
  num_requests_,
  num_responses_,
  num_failed_requests_,
  done_sending_,
  cq_,                   \* completion queue: completed calls not yet pulled
  pending,               \* calls started on the endpoint, not yet completed
  rpc_pc,                \* position of the AsyncCompleteRpc thread
  got_call,              \* the tag AsyncCompleteRpc pulled
  stats_printed,         \* PrintStats and the throughput report were executed
  \* streaming client
  all_wav_i,             \* next payload index of DoStreamingFromFile
  num_active_streams_,
  num_streams_started_,
  num_streams_finished_,
  tasks_,                \* ThreadPool::tasks_, FIFO
  calls,                 \* the ClientCall objects (and their Stream), by corr id
  total_audio_processed_,
  print_latency_stats_,
  int_latencies_,
  final_latencies_,
  print_stats_rc,        \* value returned by the last PrintStats(), NoExit before
  printed,               \* the latency lines the last PrintStats() wrote to stdout
  request_exit,          \* g_request_exit, set by the SIGINT handler
  thread_pool_,          \* the ThreadPool besides its queue: stop_, outstanding_tasks_, threads_
  steady_clock           \* std::chrono::steady_clock, in ticks of 1 / TicksPerUs microseconds

\* run configuration, fixed after start
config == <<client, num_files, num_iterations, parallel_requests, simulate_realtime_,
           print_transcripts_, interim_results_, startup>>

\* the variables only the unary clients have
uonly == <<all_query_i, curr_tasks_, num_requests_, num_responses_,
           num_failed_requests_, done_sending_, cq_, pending, rpc_pc, got_call,
           stats_printed>>

uonly_but_pc == <<all_query_i, curr_tasks_, num_requests_, num_responses_,
                  num_failed_requests_, done_sending_, cq_, pending, got_call,
                  stats_printed>>

\* the variables only the streaming client has
sonly == <<all_wav_i, num_active_streams_, num_streams_started_,
           num_streams_finished_, tasks_, calls, total_audio_processed_,
           print_latency_stats_, int_latencies_, final_latencies_, print_stats_rc, printed, request_exit, thread_pool_, steady_clock>>

sonly_but_printed ==
  <<all_wav_i, num_active_streams_, num_streams_started_, num_streams_finished_,
    tasks_, calls, total_audio_processed_, print_latency_stats_, int_latencies_,
    final_latencies_, print_stats_rc, request_exit, thread_pool_, steady_clock>>

vars == <<config, main_pc, exit_code, latencies_, succeeded_log, failed_log, uonly,
          sonly>>

\* resolution of the modelled clock: ticks per microsecond
TicksPerUs == 4
TicksPerMs == 1000 * TicksPerUs

\* std::chrono::steady_clock::now()
Now == steady_clock

\* std::chrono::duration<double, std::milli>(end - start).count()
Elapsed(start, end) == end - start

\* ------------------------------------------------------------ statistics
\* per50i = static_cast<size_t>(std::floor(50. * nresultsf / 100.)), etc.
PercentileIndex_NMinusOne(p, n) == (p * (n - 1)) \div 100

PercentileIndex(p, n) == (p * n) \div 100

\* std::sort(latencies.begin(), latencies.end())
Sorted(latencies) == SortSeq(latencies, LAMBDA a, b : a < b)

\* std::accumulate(latencies.begin(), latencies.end(), 0.0)
RECURSIVE Accumulate(_)
Accumulate(latencies) ==
  IF latencies = <<>> THEN 0 ELSE Head(latencies) + Accumulate(Tail(latencies))

\* the line of percentiles read from a vector at the percentile indices
\* (latencies[per50i] is element per50i + 1 of the sequence); avg is kept
\* as the pair <<sum, count>>
LatencyLine(latencies, name) ==
  LET n == Len(latencies) IN
    [name |-> name,
     median |-> latencies[PercentileIndex(50, n) + 1],
     lat_90 |-> latencies[PercentileIndex(90, n) + 1],
     lat_95 |-> latencies[PercentileIndex(95, n) + 1],
     lat_99 |-> latencies[PercentileIndex(99, n) + 1],
     avg |-> <<Accumulate(latencies), n>>]

PrintLatencies_Unsorted(latencies, name) ==
  IF Len(latencies) > 0 THEN <<LatencyLine(latencies, name)>> ELSE <<>>

\* PrintLatencies(latencies, name): nothing for an empty vector, otherwise
\* the vector is sorted and one line is printed
PrintLatencies(latencies, name) ==
  IF Len(latencies) > 0 THEN <<LatencyLine(Sorted(latencies), name)>> ELSE <<>>

\* all_query_max = all_queries.size() * FLAGS_num_iterations
all_query_max == num_files * num_iterations

\* NumActiveTasks(): size of curr_tasks_ under mutex_
NumActiveTasks == Cardinality(curr_tasks_)

UnaryFieldsInit ==
  /\ all_query_i = 0
  /\ curr_tasks_ = {}
  /\ num_requests_ = 0
  /\ num_responses_ = 0
  /\ num_failed_requests_ = 0
  /\ done_sending_ = FALSE
  /\ cq_ = <<>>
  /\ pending = {}
  /\ rpc_pc = "idle"
  /\ got_call = NoCall
  /\ stats_printed = FALSE

StreamFieldsInit ==
  /\ all_wav_i = 0
  /\ num_active_streams_ = 0
  /\ num_streams_started_ = 0
  /\ num_streams_finished_ = 0
  /\ tasks_ = <<>>
  /\ calls = <<>>
  /\ total_audio_processed_ = 0
  /\ print_latency_stats_ = TRUE
  /\ int_latencies_ = <<>>
  /\ final_latencies_ = <<>>
  /\ print_stats_rc = NoExit
  /\ printed = <<>>
  /\ request_exit = FALSE
  /\ thread_pool_ = NoPool
  /\ steady_clock = 0

InitUnary ==
  /\ client \in {"nlp", "asr"}
  /\ num_files \in 0..MaxFiles
  /\ num_iterations \in 0..MaxIterations
  /\ parallel_requests \in 1..MaxParallel
  /\ simulate_realtime_ = FALSE
  /\ print_transcripts_ = FALSE
  /\ interim_results_ = TRUE
  /\ startup = NoStartup
  /\ main_pc = "load"
  /\ exit_code = NoExit
  /\ latencies_ = <<>>
  /\ succeeded_log = EmptyBag
  /\ failed_log = EmptyBag
  /\ UnaryFieldsInit
  /\ StreamFieldsInit

\* ------------------------------------------------------------ main thread
\* main(): payloads loaded; the ASR client exits 1 on an empty file list;
\* otherwise the AsyncCompleteRpc thread is spawned and the loop entered.
MainLoad ==
  /\ main_pc = "load"
  /\ IF client = "asr" /\ num_files = 0
       THEN /\ main_pc' = "exited"
            /\ exit_code' = 1
            /\ UNCHANGED rpc_pc
       ELSE /\ main_pc' = "poll"
            /\ rpc_pc' = "next"
            /\ UNCHANGED exit_code
  /\ UNCHANGED <<sonly, config, latencies_, succeeded_log, failed_log, all_query_i,
                 curr_tasks_, num_requests_, num_responses_, num_failed_requests_,
                 done_sending_, cq_, pending, got_call, stats_printed>>

MainPoll_NoGate ==
  /\ main_pc = "poll"
  /\ main_pc' = IF all_query_i < all_query_max THEN "infer" ELSE "break"
  /\ UNCHANGED <<sonly, config, exit_code, latencies_, succeeded_log, failed_log, uonly>>

\* inner while condition: NumActiveTasks() < parallel_requests && i < max
MainPoll ==
  /\ main_pc = "poll"
  /\ main_pc' = IF NumActiveTasks < parallel_requests /\ all_query_i < all_query_max
                  THEN "infer" ELSE "break"
  /\ UNCHANGED <<sonly, config, exit_code, latencies_, succeeded_log, failed_log, uonly>>

Infer_ConstantId(corr_id) ==
  /\ curr_tasks_' = curr_tasks_ \cup {0}
  /\ num_requests_' = num_requests_ + 1
  /\ pending' = pending \cup {0}

\* Infer / Recognize: track the id, count the request, start the call
Infer(corr_id) ==
  /\ curr_tasks_' = curr_tasks_ \cup {corr_id}
  /\ num_requests_' = num_requests_ + 1
  /\ pending' = pending \cup {corr_id}

MainInfer ==
  /\ main_pc = "infer"
  /\ Infer(all_query_i)
  /\ all_query_i' = all_query_i + 1
  /\ main_pc' = "poll"
  /\ UNCHANGED <<sonly, config, exit_code, latencies_, succeeded_log, failed_log,
                 num_responses_, num_failed_requests_, done_sending_, cq_, rpc_pc,
                 got_call, stats_printed>>

\* if (all_query_i == all_query_max) break;
MainBreak ==
  /\ main_pc = "break"
  /\ main_pc' = IF all_query_i = all_query_max THEN "done_sending" ELSE "poll"
  /\ UNCHANGED <<sonly, config, exit_code, latencies_, succeeded_log, failed_log, uonly>>

DoneSending ==
  /\ main_pc = "done_sending"
  /\ done_sending_' = TRUE
  /\ main_pc' = "join"
  /\ UNCHANGED <<sonly, config, exit_code, latencies_, succeeded_log, failed_log,
                 all_query_i, curr_tasks_, num_requests_, num_responses_,
                 num_failed_requests_, cq_, pending, rpc_pc, got_call,
                 stats_printed>>

MainJoin_NoWait ==
  /\ main_pc = "join"
  /\ main_pc' = "report"
  /\ UNCHANGED <<sonly, config, exit_code, latencies_, succeeded_log, failed_log, uonly>>

\* thread_.join()
MainJoin ==
  /\ main_pc = "join"
  /\ rpc_pc = "returned"
  /\ main_pc' = "report"
  /\ UNCHANGED <<sonly, config, exit_code, latencies_, succeeded_log, failed_log, uonly>>

\* the value main() returns after the report
UnaryExitCode == 0

\* if (NumFailedRequests()) "not printing" else PrintStats + throughput; return 0
MainReport ==
  /\ main_pc = "report"
  /\ stats_printed' = (num_failed_requests_ = 0)
  /\ IF num_failed_requests_ = 0
       THEN \* client.PrintStats(): sorts latencies_ in place, prints the line
            /\ latencies_' = Sorted(latencies_)
            /\ printed' = PrintLatencies(latencies_, "Latencies")
       ELSE UNCHANGED <<latencies_, printed>>
  /\ exit_code' = UnaryExitCode
  /\ main_pc' = "exited"
  /\ UNCHANGED <<sonly_but_printed, config, succeeded_log, failed_log, all_query_i,
                 curr_tasks_, num_requests_, num_responses_, num_failed_requests_,
                 done_sending_, cq_, pending, rpc_pc, got_call>>

\* ------------------------------------------------------------ endpoint
\* The remote completes a started call: its tag is queued on cq_ with the
\* completion flag ok and the RPC status.
ServerComplete ==
  /\ client \in {"nlp", "asr"}
  /\ exit_code = NoExit
  /\ \E c \in pending, ok \in BOOLEAN, st \in {"OK", "ERR"} :
       /\ pending' = pending \ {c}
       /\ cq_' = Append(cq_, [id |-> c, ok |-> ok, status |-> st])
  /\ UNCHANGED <<sonly, config, main_pc, exit_code, latencies_, succeeded_log, failed_log,
                 all_query_i, curr_tasks_, num_requests_, num_responses_,
                 num_failed_requests_, done_sending_, rpc_pc, got_call,
                 stats_printed>>

\* ------------------------------------------------ AsyncCompleteRpc thread
\* while (!stop_flag && cq_.Next(&got_tag, &ok)): blocks until a tag is there
RpcNext ==
  /\ rpc_pc = "next"
  /\ cq_ # <<>>
  /\ got_call' = Head(cq_)
  /\ cq_' = Tail(cq_)
  /\ rpc_pc' = "assert"
  /\ UNCHANGED <<sonly, config, main_pc, exit_code, latencies_, succeeded_log, failed_log,
                 all_query_i, curr_tasks_, num_requests_, num_responses_,
                 num_failed_requests_, done_sending_, pending, stats_printed>>

RpcAssert_Ignored ==
  /\ rpc_pc = "assert"
  /\ rpc_pc' = "status"
  /\ UNCHANGED <<main_pc, exit_code>>
  /\ UNCHANGED <<sonly, config, latencies_, succeeded_log, failed_log, all_query_i,
                 curr_tasks_, num_requests_, num_responses_, num_failed_requests_,
                 done_sending_, cq_, pending, got_call, stats_printed>>

\* GPR_ASSERT(ok): aborts the process when ok is false
RpcAssert ==
  /\ rpc_pc = "assert"
  /\ IF got_call.ok
       THEN /\ rpc_pc' = "status"
            /\ UNCHANGED <<main_pc, exit_code>>
       ELSE /\ rpc_pc' = "aborted"
            /\ main_pc' = "aborted"
            /\ exit_code' = ExitAbort
  /\ UNCHANGED <<sonly, config, latencies_, succeeded_log, failed_log, all_query_i,
                 curr_tasks_, num_requests_, num_responses_, num_failed_requests_,
                 done_sending_, cq_, pending, got_call, stats_printed>>

\* if (call->status.ok()) latencies_.push_back(lat) else num_failed_requests_++
HandleStatus(call) ==
  IF call.status = "OK"
    THEN /\ latencies_' = Append(latencies_, Elapsed(Now, Now))
         /\ succeeded_log' = succeeded_log (+) SetToBag({call.id})
         /\ UNCHANGED <<num_failed_requests_, failed_log>>
    ELSE /\ num_failed_requests_' = num_failed_requests_ + 1
         /\ failed_log' = failed_log (+) SetToBag({call.id})
         /\ UNCHANGED <<latencies_, succeeded_log>>

RpcStatus ==
  /\ rpc_pc = "status"
  /\ HandleStatus(got_call)
  /\ rpc_pc' = "erase"
  /\ UNCHANGED <<sonly, config, main_pc, exit_code, all_query_i, curr_tasks_,
                 num_requests_, num_responses_, done_sending_, cq_, pending,
                 got_call, stats_printed>>

ReleaseCall_OnlyOk(call) ==
  IF call.status = "OK"
    THEN /\ curr_tasks_' = curr_tasks_ \ {call.id}
         /\ num_responses_' = num_responses_ + 1
    ELSE UNCHANGED <<curr_tasks_, num_responses_>>

\* { lock; curr_tasks_.erase(corr_id); num_responses_++; }  delete call;
ReleaseCall(call) ==
  /\ curr_tasks_' = curr_tasks_ \ {call.id}
  /\ num_responses_' = num_responses_ + 1

RpcErase ==
  /\ rpc_pc = "erase"
  /\ ReleaseCall(got_call)
  /\ rpc_pc' = "check"
  /\ UNCHANGED <<sonly, config, main_pc, exit_code, latencies_, succeeded_log, failed_log,
                 all_query_i, num_requests_, num_failed_requests_, done_sending_,
                 cq_, pending, got_call, stats_printed>>

\* if (num_responses_ == num_requests_ && done_sending_): the left operand is
\* read first, without mutex_; done_sending_ is read in a later step
RpcCheckCounts ==
  /\ rpc_pc = "check"
  /\ rpc_pc' = IF num_responses_ = num_requests_ THEN "check_done" ELSE "next"
  /\ UNCHANGED <<sonly, config, main_pc, exit_code, latencies_, succeeded_log, failed_log,
                 uonly_but_pc>>

\* ... && done_sending_) stop_flag = true;  the loop then ends
RpcCheckDone ==
  /\ rpc_pc = "check_done"
  /\ rpc_pc' = IF done_sending_ THEN "returned" ELSE "next"
  /\ UNCHANGED <<sonly, config, main_pc, exit_code, latencies_, succeeded_log, failed_log,
                 uonly_but_pc>>

MainNext ==
  /\ client \in {"nlp", "asr"}
  /\ \/ MainLoad \/ MainPoll \/ MainInfer \/ MainBreak \/ DoneSending \/ MainJoin
     \/ MainReport

RpcThreadNext ==
  \/ RpcNext \/ RpcAssert \/ RpcStatus \/ RpcErase \/ RpcCheckCounts \/ RpcCheckDone

UnaryNext == MainNext \/ ServerComplete \/ RpcThreadNext

SpecUnary == InitUnary /\ [][UnaryNext]_vars

\* ============================================================ streaming
\* sizeof(FixedWAVHeader), sizeof(int16_t)
HeaderSize == 44
SampleBytes == 2

Min(a, b) == IF a < b THEN a ELSE b

\* chunk_size = (sample_rate * chunk_duration_ms_ / 1000) * sizeof(int16_t)
ChunkSize(call) == ((call.sample_rate * ChunkDurationMs) \div 1000) * SampleBytes

\* wav->data.size() of the files of the run
WavSizes == {HeaderSize + SampleBytes * n : n \in 1..MaxSamples}

\* all_wav_max = all_wav.size() * num_iterations
all_wav_max == num_files * num_iterations

NumActiveStreams == num_active_streams_
NumStreamsFinished == num_streams_finished_

\* struct Results, as ClientCall default-constructs latest_result_; strings
\* are sequences of tokens, += on strings is \o
NoResults ==
  [final_transcripts |-> <<>>, final_scores |-> <<>>, partial_transcript |-> <<>>,
   final_time_stamps |-> <<>>, partial_time_stamps |-> <<>>, audio_processed |-> 0]

\* ClientCall(corr_id, word_time_offsets) + Stream(wav, corr_id); response is
\* the frame Read() filled last, result_r the index of the results loop,
\* responses the history of the frames read, sample_rate the wav's rate,
\* writes the history of what was written on the streamer, start_time the
\* local of GenerateRequests and sleeps the history of its pacing decisions
NewCall(corr_id, size) ==
  [corr_id |-> corr_id, data_size |-> size, offset |-> 0, audio_processed |-> 0,
   send_times |-> <<>>, recv_times |-> <<>>, recv_final_flags |-> <<>>,
   word_time_offsets_ |-> FALSE, latest_result_ |-> NoResults,
   sample_rate |-> SampleRate, writes |-> <<>>,
   response |-> <<>>, result_r |-> 0, responses |-> <<>>,
   start_time |-> 0, sleeps |-> <<>>,
   gen_pc |-> "queued", recv_pc |-> "queued",
   freed |-> FALSE]

\* the ClientCall is destroyed when both of its tasks have returned (the
\* last shared_ptr owner is gone)
FreedCall(corr_id) ==
  [NewCall(corr_id, 0) EXCEPT !.gen_pc = "done", !.recv_pc = "done",
                              !.freed = TRUE]

CorrIds == 0..(Len(calls) - 1)
Call(c) == calls[c + 1]
SetCall(c, rec) ==
  calls' = [calls EXCEPT ![c + 1] =
              IF rec.gen_pc = "done" /\ rec.recv_pc = "done"
                THEN FreedCall(c) ELSE rec]

InitStream ==
  /\ client = "streaming"
  /\ num_files \in 0..MaxStreamFiles
  /\ num_iterations \in 0..MaxStreamIterations
  /\ parallel_requests \in 1..MaxParallel
  /\ simulate_realtime_ \in BOOLEAN
  /\ print_transcripts_ = FALSE
  /\ interim_results_ = TRUE
  /\ startup = NoStartup
  /\ main_pc = "load"
  /\ exit_code = NoExit
  /\ latencies_ = <<>>
  /\ succeeded_log = EmptyBag
  /\ failed_log = EmptyBag
  /\ UnaryFieldsInit
  /\ StreamFieldsInit

\* DoStreamingFromFile: LoadWavData; if (all_wav.size() == 0) return 1
StreamLoad ==
  /\ main_pc = "load"
  /\ IF num_files = 0
       THEN main_pc' = "exited" /\ exit_code' = 1
       ELSE main_pc' = "spoll" /\ UNCHANGED exit_code
  /\ UNCHANGED <<uonly, sonly, config, latencies_, succeeded_log, failed_log>>

\* while (NumActiveStreams() < num_parallel_requests && all_wav_i < all_wav_max)
StreamPoll ==
  /\ main_pc = "spoll"
  /\ main_pc' = IF NumActiveStreams < parallel_requests /\ all_wav_i < all_wav_max
                  THEN "start" ELSE "sbreak"
  /\ UNCHANGED <<uonly, sonly, config, exit_code, latencies_, succeeded_log,
                 failed_log>>

\* StartNewStream: count the stream and enqueue its two tasks
StartNewStream(corr_id, size) ==
  /\ calls' = Append(calls, NewCall(corr_id, size))
  /\ num_active_streams_' = num_active_streams_ + 1
  /\ num_streams_started_' = num_streams_started_ + 1
  /\ tasks_' = tasks_ \o <<[kind |-> "gen", id |-> corr_id],
                           [kind |-> "recv", id |-> corr_id]>>

StreamStart ==
  /\ main_pc = "start"
  /\ \E size \in WavSizes : StartNewStream(all_wav_i, size)
  /\ all_wav_i' = all_wav_i + 1
  /\ main_pc' = "spoll"
  /\ UNCHANGED <<uonly, config, exit_code, latencies_, succeeded_log, failed_log,
                 num_streams_finished_, total_audio_processed_,
                 print_latency_stats_, int_latencies_, final_latencies_,
                 print_stats_rc, printed, request_exit, thread_pool_, steady_clock>>

StreamBreak_OnStarted ==
  /\ main_pc = "sbreak"
  /\ main_pc' = IF all_wav_i = all_wav_max THEN "stats" ELSE "spoll"
  /\ UNCHANGED <<uonly, sonly, config, exit_code, latencies_, succeeded_log,
                 failed_log>>

\* if (NumStreamsFinished() == all_wav_max) break;
StreamBreak ==
  /\ main_pc = "sbreak"
  /\ main_pc' = IF NumStreamsFinished = all_wav_max THEN "stats" ELSE "spoll"
  /\ UNCHANGED <<uonly, sonly, config, exit_code, latencies_, succeeded_log,
                 failed_log>>

\* PrintStats(): 0 when latency statistics are printed, 1 when withheld
PrintStats == IF print_latency_stats_ /\ simulate_realtime_ THEN 0 ELSE 1

\* what PrintStats() does besides returning: the three vectors are sorted in
\* place by PrintLatencies and their lines printed, or the notice is printed
PrintStatsOutput ==
  IF print_latency_stats_ /\ simulate_realtime_
    THEN /\ printed' = PrintLatencies(latencies_, "Latencies")
                         \o PrintLatencies(int_latencies_, "Intermediate latencies")
                         \o PrintLatencies(final_latencies_, "Final latencies")
         /\ latencies_' = Sorted(latencies_)
         /\ int_latencies_' = Sorted(int_latencies_)
         /\ final_latencies_' = Sorted(final_latencies_)
    ELSE /\ printed' = <<>>
         /\ UNCHANGED <<latencies_, int_latencies_, final_latencies_>>

\* the value DoStreamingFromFile returns after the summary
StreamExitCode == 0

\* { lock; PrintStats(); run time, total audio, throughput }  return 0;
StreamReport ==
  /\ main_pc = "stats"
  /\ print_stats_rc' = PrintStats
  /\ PrintStatsOutput
  /\ exit_code' = StreamExitCode
  /\ main_pc' = "exited"
  /\ UNCHANGED <<uonly, config, succeeded_log, failed_log, all_wav_i,
                 num_active_streams_, num_streams_started_, num_streams_finished_,
                 tasks_, calls, total_audio_processed_, print_latency_stats_,
                 request_exit, thread_pool_, steady_clock>>

\* ------------------------------------------------------------ ThreadPool
\* ThreadPool(4 * num_parallel_requests)
NumWorkers == 4 * parallel_requests

Running(pc) == pc \notin {"queued", "done"}
BusyWorkers ==
  Cardinality({c \in CorrIds : Running(Call(c).gen_pc)})
  + Cardinality({c \in CorrIds : Running(Call(c).recv_pc)})

\* a free worker pops the front task and runs it
WorkerDequeue ==
  /\ client = "streaming"
  /\ tasks_ # <<>>
  /\ BusyWorkers < NumWorkers
  /\ LET t == Head(tasks_) IN
       /\ tasks_' = Tail(tasks_)
       /\ IF t.kind = "gen"
            THEN SetCall(t.id, [Call(t.id) EXCEPT !.gen_pc = "config"])
            ELSE SetCall(t.id, [Call(t.id) EXCEPT !.recv_pc = "read"])
  /\ UNCHANGED <<uonly, config, main_pc, exit_code, latencies_, succeeded_log,
                 failed_log, all_wav_i, num_active_streams_, num_streams_started_,
                 num_streams_finished_, total_audio_processed_,
                 print_latency_stats_, int_latencies_, final_latencies_,
                 print_stats_rc, printed, request_exit, thread_pool_, steady_clock>>

\* ------------------------------------------------------ GenerateRequests
\* first_write: start_time is taken and the streaming_config request written
GenConfig_Skipped(c) ==
  /\ Call(c).gen_pc = "config"
  /\ SetCall(c, [Call(c) EXCEPT !.start_time = Now, !.gen_pc = "chunk"])

GenConfig(c) ==
  /\ Call(c).gen_pc = "config"
  /\ SetCall(c, [Call(c) EXCEPT !.start_time = Now,
                                !.writes = Append(@, [kind |-> "config"]),
                                !.gen_pc = "chunk"])

BytesToSend_Overrun(call) ==
  ChunkSize(call) + (IF call.offset = 0 THEN HeaderSize ELSE 0)

\* bytes_to_send = min(data.size() - offset, chunk_size + header_size)
BytesToSend(call) ==
  Min(call.data_size - call.offset,
      ChunkSize(call) + (IF call.offset = 0 THEN HeaderSize ELSE 0))

\* current_wait_time = 1000 * (bytes_to_send - header_size) / (2 * sample_rate)
\* (whole milliseconds: the division is one of size_t values)
CurrentWaitTime(call) ==
  (1000 * (BytesToSend(call) - (IF call.offset = 0 THEN HeaderSize ELSE 0)))
    \div (SampleBytes * call.sample_rate)

\* the request with audio_content = data[offset, offset + bytes_to_send)
AudioWrite(call, bytes) ==
  [kind |-> "audio", offset |-> call.offset, size |-> bytes]

\* the clock runs in the specification of one file writer; the
\* specifications that interleave several threads keep every reading at 0
ClockRuns == client = "pacer"

\* the time that passes between two readings of the clock by the writer:
\* none, just short of a millisecond, a millisecond, two
ClockDelays ==
  IF ClockRuns /\ steady_clock < MaxClock
    THEN {0, TicksPerMs - 2, TicksPerMs - 1, TicksPerMs, 2 * TicksPerMs}
    ELSE {0}

WaitTime_NoCatchUp(call, diff_time) == CurrentWaitTime(call) * TicksPerMs

\* wait_time = current_wait_time - (diff_time - send_times.size() * chunk_duration_ms_)
WaitTime(call, diff_time) ==
  CurrentWaitTime(call) * TicksPerMs
    - (diff_time - Len(call.send_times) * ChunkDurationMs * TicksPerMs)

\* wait_time *= 1.e3; wait_time = max(wait_time, 0.); rounded to the nearest
\* integer; usecs = (int64_t)wait_time
Usecs(wait_time) ==
  LET clamped == IF wait_time > 0 THEN wait_time ELSE 0
  IN (2 * clamped + TicksPerUs) \div (2 * TicksPerUs)

Sleeps_Always(usecs) == TRUE

\* if (usecs > 0) usleep(usecs);
Sleeps(usecs) == usecs > 0

\* the pacing decision before a chunk at clock reading current_time: what
\* the simulate_realtime_ block computed and whether usleep was called
Pace(call, current_time) ==
  LET diff_time == Elapsed(call.start_time, current_time)
      usecs == Usecs(WaitTime(call, diff_time))
  IN IF simulate_realtime_
       THEN [realtime |-> TRUE, diff_time |-> diff_time,
             wait_time |-> WaitTime(call, diff_time),
             usecs |-> usecs, slept |-> Sleeps(usecs)]
       ELSE [realtime |-> FALSE, diff_time |-> 0, wait_time |-> 0,
             usecs |-> 0, slept |-> FALSE]

\* the clock reading after the pacing decision was carried out
AfterSleep(pace, current_time) ==
  current_time + (IF ClockRuns /\ pace.slept THEN pace.usecs * TicksPerUs ELSE 0)

GenChunk_NoWritesDone(c) ==
  /\ Call(c).gen_pc = "chunk"
  /\ \E delay \in ClockDelays :
       LET call == Call(c)
           offset == call.offset + BytesToSend(call)
           pace == Pace(call, steady_clock + delay)
       IN /\ steady_clock' = AfterSleep(pace, steady_clock + delay)
          /\ SetCall(c, [call EXCEPT
               !.offset = offset,
               !.audio_processed = call.audio_processed + CurrentWaitTime(call),
               !.sleeps = Append(@, pace),
               !.send_times = Append(call.send_times, steady_clock'),
               !.writes = Append(@, AudioWrite(call, BytesToSend(call))),
               !.gen_pc = IF offset = call.data_size THEN "account" ELSE "chunk"])

GenChunk_NoSendTime(c) ==
  /\ Call(c).gen_pc = "chunk"
  /\ \E delay \in ClockDelays :
       LET call == Call(c)
           offset == call.offset + BytesToSend(call)
           pace == Pace(call, steady_clock + delay)
       IN /\ steady_clock' = AfterSleep(pace, steady_clock + delay)
          /\ SetCall(c, [call EXCEPT
               !.offset = offset,
               !.audio_processed = call.audio_processed + CurrentWaitTime(call),
               !.sleeps = Append(@, pace),
               !.send_times = IF offset = call.data_size
                                THEN Append(call.send_times, steady_clock')
                                ELSE call.send_times,
               !.writes = Append(@, AudioWrite(call, BytesToSend(call)))
                            \o (IF offset = call.data_size
                                  THEN <<[kind |-> "writes_done"]>> ELSE <<>>),
               !.gen_pc = IF offset = call.data_size THEN "account" ELSE "chunk"])

\* one audio chunk: offset advances, in realtime mode the writer sleeps until
\* the chunk is due, the send time is recorded, the chunk is written; when
\* the payload is exhausted WritesDone() ends the loop
GenChunk(c) ==
  /\ Call(c).gen_pc = "chunk"
  /\ \E delay \in ClockDelays :
       LET call == Call(c)
           offset == call.offset + BytesToSend(call)
           pace == Pace(call, steady_clock + delay)
       IN /\ steady_clock' = AfterSleep(pace, steady_clock + delay)
          /\ SetCall(c, [call EXCEPT
               !.offset = offset,
               !.audio_processed = call.audio_processed + CurrentWaitTime(call),
               !.sleeps = Append(@, pace),
               !.send_times = Append(call.send_times, steady_clock'),
               !.writes = Append(@, AudioWrite(call, BytesToSend(call)))
                            \o (IF offset = call.data_size
                                  THEN <<[kind |-> "writes_done"]>> ELSE <<>>),
               !.gen_pc = IF offset = call.data_size THEN "account" ELSE "chunk"])

\* { lock(latencies_mutex_); total_audio_processed_ += audio_processed; }
GenAccount(c) ==
  /\ Call(c).gen_pc = "account"
  /\ total_audio_processed_' = total_audio_processed_ + Call(c).audio_processed
  /\ SetCall(c, [Call(c) EXCEPT !.gen_pc = "release"])

\* num_active_streams_--;  the task returns
GenRelease(c) ==
  /\ Call(c).gen_pc = "release"
  /\ num_active_streams_' = num_active_streams_ - 1
  /\ SetCall(c, [Call(c) EXCEPT !.gen_pc = "done"])

GenerateRequests ==
  /\ client = "streaming"
  /\ \E c \in CorrIds :
       \/ GenConfig(c)
            /\ UNCHANGED <<total_audio_processed_, num_active_streams_, steady_clock>>
       \/ GenChunk(c)
            /\ UNCHANGED <<total_audio_processed_, num_active_streams_>>
       \/ GenAccount(c) /\ UNCHANGED <<num_active_streams_, steady_clock>>
       \/ GenRelease(c) /\ UNCHANGED <<total_audio_processed_, steady_clock>>
  /\ UNCHANGED <<uonly, config, main_pc, exit_code, latencies_, succeeded_log,
                 failed_log, all_wav_i, num_streams_started_,
                 num_streams_finished_, tasks_, print_latency_stats_,
                 int_latencies_, final_latencies_, print_stats_rc, printed,
                 request_exit, thread_pool_>>

\* ----------------------------------------------------- PostProcessResults
LengthsAgree_Exact(call) == Len(call.recv_times) = Len(call.send_times)

\* recv_times.size() == send_times.size() or send_times.size() + 1
LengthsAgree(call) ==
  \/ Len(call.recv_times) = Len(call.send_times)
  \/ Len(call.recv_times) = Len(call.send_times) + 1

Lat_Swapped(call, i) == Elapsed(call.recv_times[i], call.send_times[i])

\* lat = recv_times[time_cnt] - send_times[time_cnt]
Lat(call, i) == Elapsed(call.send_times[i], call.recv_times[i])

\* the samples of the entries whose recv_final_flags equal want, in order
RECURSIVE PickLat(_, _, _)
PickLat(call, i, want) ==
  IF i > Len(call.send_times) THEN <<>>
  ELSE (IF call.recv_final_flags[i] = want THEN <<Lat(call, i)>> ELSE <<>>)
         \o PickLat(call, i + 1, want)

AllLat(call) == [i \in 1..Len(call.send_times) |-> Lat(call, i)]

PostProcessResults_PerCall(call) ==
  IF ~LengthsAgree(call)
    THEN /\ print_latency_stats_' = FALSE
         /\ UNCHANGED <<latencies_, int_latencies_, final_latencies_>>
    ELSE /\ final_latencies_' = final_latencies_ \o PickLat(call, 1, TRUE)
         /\ int_latencies_' = int_latencies_ \o PickLat(call, 1, FALSE)
         /\ latencies_' = latencies_ \o AllLat(call)
         /\ print_latency_stats_' = TRUE

PostProcessResults(call) ==
  IF ~LengthsAgree(call)
    THEN /\ print_latency_stats_' = FALSE
         /\ UNCHANGED <<latencies_, int_latencies_, final_latencies_>>
    ELSE /\ final_latencies_' = final_latencies_ \o PickLat(call, 1, TRUE)
         /\ int_latencies_' = int_latencies_ \o PickLat(call, 1, FALSE)
         /\ latencies_' = latencies_ \o AllLat(call)
         /\ UNCHANGED print_latency_stats_

\* ---------------------------------------------------------- AppendResult
\* std::vector::resize(n): truncated, or grown with value-initialised elements
Resize(v, n, fill) == [i \in 1..n |-> IF i <= Len(v) THEN v[i] ELSE fill]

AppendResult_Replace(latest, result, word_time_offsets) ==
  LET sized == IF Len(latest.final_transcripts) < 1
                 THEN [latest EXCEPT !.final_transcripts = << <<>> >>]
                 ELSE latest
      n == Len(result.alternatives)
  IN IF result.is_final
       THEN LET ft == Resize(sized.final_transcripts, n, <<>>)
                fs == Resize(sized.final_scores, n, 0)
            IN [sized EXCEPT
                  !.final_transcripts =
                     [a \in 1..n |-> ft[a] \o result.alternatives[a].transcript],
                  !.final_scores =
                     [a \in 1..n |-> fs[a] + result.alternatives[a].confidence],
                  !.final_time_stamps =
                     IF word_time_offsets /\ n > 0
                       THEN @ \o result.alternatives[1].words ELSE @]
       ELSE IF n > 0
              THEN [sized EXCEPT
                      !.partial_transcript = result.alternatives[1].transcript,
                      !.partial_time_stamps =
                         IF word_time_offsets
                           THEN result.alternatives[1].words ELSE @]
              ELSE sized

\* ClientCall::AppendResult(result) on latest_result_
AppendResult(latest, result, word_time_offsets) ==
  LET sized == IF Len(latest.final_transcripts) < 1
                 THEN [latest EXCEPT !.final_transcripts = << <<>> >>]
                 ELSE latest
      n == Len(result.alternatives)
  IN IF result.is_final
       THEN LET ft == Resize(sized.final_transcripts, n, <<>>)
                fs == Resize(sized.final_scores, n, 0)
            IN [sized EXCEPT
                  !.final_transcripts =
                     [a \in 1..n |-> ft[a] \o result.alternatives[a].transcript],
                  !.final_scores =
                     [a \in 1..n |-> fs[a] + result.alternatives[a].confidence],
                  !.final_time_stamps =
                     IF word_time_offsets /\ n > 0
                       THEN @ \o result.alternatives[1].words ELSE @]
       ELSE IF n > 0
              THEN [sized EXCEPT
                      !.partial_transcript = @ \o result.alternatives[1].transcript,
                      !.partial_time_stamps =
                         IF word_time_offsets
                           THEN @ \o result.alternatives[1].words ELSE @]
              ELSE sized

\* ------------------------------------------------------ ReceiveResponses
BeginFrame_NoReset(call, frame) ==
  [call EXCEPT
     !.recv_times = Append(@, Now),
     !.response = frame,
     !.responses = Append(@, frame),
     !.result_r = 1]

\* Read(&call->response) returned true: the receive time is pushed and the
\* partial transcript and partial time stamps are reset
BeginFrame(call, frame) ==
  [call EXCEPT
     !.recv_times = Append(@, Now),
     !.response = frame,
     !.responses = Append(@, frame),
     !.latest_result_.partial_transcript = <<>>,
     !.latest_result_.partial_time_stamps = <<>>,
     !.result_r = 1]

\* one round of the loop over response.results(r)
ProcessResult(call) ==
  LET result == call.response[call.result_r]
      latest == [call.latest_result_ EXCEPT
                   !.audio_processed = result.audio_processed]
  IN [call EXCEPT
        !.latest_result_ =
           IF print_transcripts_
             THEN AppendResult(latest, result, call.word_time_offsets_)
             ELSE latest,
        !.result_r = @ + 1]

\* the live line final_transcripts[0] + partial_transcript is printed when
\* the frame has results; final_transcripts[0] does not exist when the last
\* AppendResult resized final_transcripts to no alternatives
PrintsPastEnd(call) ==
  /\ Len(call.response) > 0
  /\ interim_results_
  /\ print_transcripts_
  /\ call.latest_result_.final_transcripts = <<>>

EndFrame_LastFragment(call) ==
  [call EXCEPT
     !.recv_final_flags =
        Append(@, Len(call.response) > 0
                    /\ call.response[Len(call.response)].is_final),
     !.result_r = 0]

\* recv_final_flags.push_back(is_final), is_final being true when some
\* result of the frame was final
EndFrame(call) ==
  [call EXCEPT
     !.recv_final_flags =
        Append(@, \E r \in 1..Len(call.response) : call.response[r].is_final),
     !.result_r = 0]

RECURSIVE ProcessResults(_)
ProcessResults(call) ==
  IF call.result_r > Len(call.response) THEN call
  ELSE ProcessResults(ProcessResult(call))

\* the whole body of the Read loop for one frame
OnFrame(call, frame) == EndFrame(ProcessResults(BeginFrame(call, frame)))

\* the frames of the interleaving specification: one result, final or not,
\* without alternatives
StreamFrames ==
  {<<[is_final |-> f, alternatives |-> <<>>, audio_processed |-> 0]>> : f \in BOOLEAN}

\* while (streamer->Read(&response)): Read returns true with the next frame
\* of the remote (the body of the loop runs) or false when the remote has
\* ended the stream
RecvRead(c) ==
  /\ Call(c).recv_pc = "read"
  /\ LET call == Call(c) IN
       \/ \E frame \in StreamFrames :
            /\ Len(call.recv_times) < MaxFrames
            /\ SetCall(c, OnFrame(call, frame))
       \/ SetCall(c, [call EXCEPT !.recv_pc = "finish"])

\* status = streamer->Finish(); error printed, or PostProcessResults(call)
RecvFinish(c) ==
  /\ Call(c).recv_pc = "finish"
  /\ \E status \in {"OK", "ERR"} :
     IF status = "OK"
       THEN /\ PostProcessResults(Call(c))
            /\ succeeded_log' = succeeded_log (+) SetToBag({c})
            /\ UNCHANGED failed_log
       ELSE /\ failed_log' = failed_log (+) SetToBag({c})
            /\ UNCHANGED <<latencies_, int_latencies_, final_latencies_,
                           print_latency_stats_, succeeded_log>>
  /\ SetCall(c, [Call(c) EXCEPT !.recv_pc = "count"])

\* num_streams_finished_++;  the task returns
RecvCount(c) ==
  /\ Call(c).recv_pc = "count"
  /\ num_streams_finished_' = num_streams_finished_ + 1
  /\ SetCall(c, [Call(c) EXCEPT !.recv_pc = "done"])

ReceiveResponses ==
  /\ client = "streaming"
  /\ \E c \in CorrIds :
       \/ RecvRead(c)
            /\ UNCHANGED <<latencies_, int_latencies_, final_latencies_,
                           print_latency_stats_, succeeded_log, failed_log,
                           num_streams_finished_>>
       \/ RecvFinish(c) /\ UNCHANGED num_streams_finished_
       \/ RecvCount(c)
            /\ UNCHANGED <<latencies_, int_latencies_, final_latencies_,
                           print_latency_stats_, succeeded_log, failed_log>>
  /\ UNCHANGED <<uonly, config, main_pc, exit_code, all_wav_i,
                 num_active_streams_, num_streams_started_, tasks_,
                 total_audio_processed_, print_stats_rc, printed, request_exit, thread_pool_, steady_clock>>

StreamMainNext ==
  /\ client = "streaming"
  /\ (StreamLoad \/ StreamPoll \/ StreamStart \/ StreamBreak \/ StreamReport)

StreamNext ==
  \/ StreamMainNext \/ WorkerDequeue \/ GenerateRequests \/ ReceiveResponses

SpecStream == InitStream /\ [][StreamNext]_vars

\* ====================================== PostProcessResults on given calls
\* (the arrangement of streaming_recognize_client_test.cc: a client, a
\* ClientCall filled with send and receive times, PostProcessResults, PrintStats)
RECURSIVE NonDecreasing(_, _)
NonDecreasing(n, lo) ==
  IF n = 0 THEN {<<>>}
  ELSE UNION {{<<t>> \o rest : rest \in NonDecreasing(n - 1, t)} : t \in lo..MaxTime}

TimeSeqs(maxlen) == UNION {NonDecreasing(n, 0) : n \in 0..maxlen}

FlagSeqs(n) == [1..n -> BOOLEAN]

\* calls as ReceiveResponses leaves them: one final flag per receive time
TestCalls ==
  UNION {UNION {{[NewCall(1, HeaderSize) EXCEPT !.send_times = st,
                                              !.recv_times = rt,
                                              !.recv_final_flags = fl]
                  : fl \in FlagSeqs(Len(rt))}
                 : rt \in TimeSeqs(Len(st) + 2)}
          : st \in TimeSeqs(MaxSends)}

InitRecord ==
  /\ client = "record"
  /\ num_files = 0
  /\ num_iterations = 0
  /\ parallel_requests = 1
  /\ simulate_realtime_ \in BOOLEAN
  /\ print_transcripts_ = FALSE
  /\ interim_results_ = TRUE
  /\ startup = NoStartup
  /\ main_pc = "test"
  /\ exit_code = NoExit
  /\ latencies_ = <<>>
  /\ succeeded_log = EmptyBag
  /\ failed_log = EmptyBag
  /\ UnaryFieldsInit
  /\ StreamFieldsInit

\* recognize_client.PostProcessResults(call, false) on a constructed call
RecordPostProcess ==
  /\ client = "record"
  /\ Len(calls) < MaxRecordCalls
  /\ \E call \in TestCalls :
       /\ calls' = Append(calls, call)
       /\ PostProcessResults(call)
  /\ UNCHANGED <<uonly, config, main_pc, exit_code, succeeded_log, failed_log,
                 all_wav_i, num_active_streams_, num_streams_started_,
                 num_streams_finished_, tasks_, total_audio_processed_,
                 print_stats_rc, printed, request_exit, thread_pool_, steady_clock>>

\* recognize_client.PrintStats()
RecordPrintStats ==
  /\ client \in {"record", "stats"}
  /\ print_stats_rc' = PrintStats
  /\ PrintStatsOutput
  /\ UNCHANGED <<uonly, config, main_pc, exit_code, succeeded_log,
                 failed_log, all_wav_i, num_active_streams_, num_streams_started_,
                 num_streams_finished_, tasks_, calls, total_audio_processed_,
                 print_latency_stats_, request_exit, thread_pool_, steady_clock>>

RecordNext == RecordPostProcess \/ RecordPrintStats

SpecRecord == InitRecord /\ [][RecordNext]_vars

\* ================================================ the writer of one call
\* GenerateRequests on one file of any size and rate, and MicrophoneThreadMain
\* on the call DoStreamingFromMicrophone set up
SampleRates == {SampleRate, SampleRate + SampleRate \div 2}

PacerSizes == {HeaderSize + SampleBytes * n : n \in 0..MaxPacerSamples}

WriterFieldsInit ==
  /\ num_files = 1
  /\ num_iterations = 1
  /\ parallel_requests = 1
  /\ print_transcripts_ = FALSE
  /\ interim_results_ = TRUE
  /\ startup = NoStartup
  /\ main_pc = "test"
  /\ exit_code = NoExit
  /\ latencies_ = <<>>
  /\ succeeded_log = EmptyBag
  /\ failed_log = EmptyBag
  /\ UnaryFieldsInit
  /\ all_wav_i = 1
  /\ num_active_streams_ = 1
  /\ num_streams_started_ = 1
  /\ num_streams_finished_ = 0
  /\ tasks_ = <<>>
  /\ total_audio_processed_ = 0
  /\ print_latency_stats_ = TRUE
  /\ int_latencies_ = <<>>
  /\ final_latencies_ = <<>>
  /\ print_stats_rc = NoExit
  /\ printed = <<>>
  /\ request_exit = FALSE
  /\ thread_pool_ = NoPool
  /\ steady_clock = 0

\* StartNewStream has created the call and a worker runs GenerateRequests
InitPacer ==
  /\ client = "pacer"
  /\ simulate_realtime_ \in BOOLEAN
  /\ \E size \in PacerSizes, rate \in SampleRates :
       calls = <<[NewCall(0, size) EXCEPT !.sample_rate = rate,
                                          !.gen_pc = "config"]>>
  /\ WriterFieldsInit

\* DoStreamingFromMicrophone has created the call, written the streaming
\* config and started the microphone thread
InitMic ==
  /\ client = "mic"
  /\ simulate_realtime_ = FALSE
  /\ calls = <<[NewCall(0, 0) EXCEPT !.writes = <<[kind |-> "config"]>>,
                                     !.gen_pc = "mic",
                                     !.recv_pc = "read"]>>
  /\ WriterFieldsInit

WriterUnchanged ==
  UNCHANGED <<uonly, config, main_pc, exit_code, latencies_, succeeded_log,
              failed_log, all_wav_i, num_streams_started_, num_streams_finished_,
              tasks_, print_latency_stats_, int_latencies_, final_latencies_,
              print_stats_rc, printed>>

PacerNext ==
  /\ client = "pacer"
  /\ \/ GenConfig(0)
          /\ UNCHANGED <<total_audio_processed_, num_active_streams_, steady_clock>>
     \/ GenChunk(0)
          /\ UNCHANGED <<total_audio_processed_, num_active_streams_>>
     \/ GenAccount(0) /\ UNCHANGED <<num_active_streams_, steady_clock>>
     \/ GenRelease(0) /\ UNCHANGED <<total_audio_processed_, steady_clock>>
  /\ UNCHANGED <<request_exit, thread_pool_>>
  /\ WriterUnchanged

\* signal_handler: g_request_exit = true
SignalHandler ==
  /\ client \in {"pacer", "mic"}
  /\ ~request_exit
  /\ request_exit' = TRUE
  /\ UNCHANGED <<calls, total_audio_processed_, num_active_streams_, steady_clock, thread_pool_>>
  /\ WriterUnchanged

\* snd_pcm_readi: a whole chunk, fewer frames, or an error (bytes_read = 0)
MicReads(call) ==
  (IF Len(call.send_times) + 1 < MaxMicChunks THEN {ChunkSize(call)} ELSE {})
    \cup {ChunkSize(call) - SampleBytes, 0}

\* one round of the microphone loop: read, Write, and WritesDone + break
\* after a short read or when request_exit is set
MicChunk(c) ==
  /\ Call(c).gen_pc = "mic"
  /\ \E bytes_read \in MicReads(Call(c)) :
       LET call == Call(c)
           stop == bytes_read < ChunkSize(call) \/ request_exit
       IN SetCall(c, [call EXCEPT
            !.offset = @ + bytes_read,
            !.send_times = Append(@, Now),
            !.writes = Append(@, AudioWrite(call, bytes_read))
                         \o (IF stop THEN <<[kind |-> "writes_done"]>> ELSE <<>>),
            !.gen_pc = IF stop THEN "returned" ELSE "mic"])

MicrophoneThreadMain ==
  /\ client = "mic"
  /\ MicChunk(0)
  /\ UNCHANGED <<request_exit, thread_pool_, steady_clock, total_audio_processed_, num_active_streams_>>
  /\ WriterUnchanged

InitWriter == InitPacer \/ InitMic

WriterNext == PacerNext \/ SignalHandler \/ MicrophoneThreadMain

SpecWriter == InitWriter /\ [][WriterNext]_vars

\* ========================================= ReceiveResponses on given frames
\* a ClientCall whose reader is given frames with up to MaxFragments results
\* of up to MaxAlternatives alternatives; the loop over the results of a frame
\* is taken one round at a time
Transcripts == {<<"a">>, <<"a", "b">>}

\* SpeechRecognitionAlternative: transcript, confidence, words
AlternativeSet ==
  {[transcript |-> t, confidence |-> 1, words |-> t] : t \in Transcripts}

SeqsUpTo(S, n) == UNION {[1..k -> S] : k \in 0..n}

\* StreamingRecognitionResult
ResultSet ==
  {[is_final |-> f, alternatives |-> alts, audio_processed |-> 0]
     : f \in BOOLEAN, alts \in SeqsUpTo(AlternativeSet, MaxAlternatives)}

\* StreamingRecognizeResponse
FrameSet == SeqsUpTo(ResultSet, MaxFragments)

InitAggregate ==
  /\ client = "aggregate"
  /\ num_files = 0
  /\ num_iterations = 0
  /\ parallel_requests = 1
  /\ simulate_realtime_ = FALSE
  /\ print_transcripts_ \in BOOLEAN
  /\ interim_results_ \in BOOLEAN
  /\ startup = NoStartup
  /\ main_pc = "test"
  /\ exit_code = NoExit
  /\ latencies_ = <<>>
  /\ succeeded_log = EmptyBag
  /\ failed_log = EmptyBag
  /\ UnaryFieldsInit
  /\ all_wav_i = 0
  /\ num_active_streams_ = 0
  /\ num_streams_started_ = 0
  /\ num_streams_finished_ = 0
  /\ tasks_ = <<>>
  /\ \E word_time_offsets \in BOOLEAN :
       calls = <<[NewCall(0, HeaderSize) EXCEPT
                    !.word_time_offsets_ = word_time_offsets,
                    !.recv_pc = "read"]>>
  /\ total_audio_processed_ = 0
  /\ print_latency_stats_ = TRUE
  /\ int_latencies_ = <<>>
  /\ final_latencies_ = <<>>
  /\ print_stats_rc = NoExit
  /\ printed = <<>>
  /\ request_exit = FALSE
  /\ thread_pool_ = NoPool
  /\ steady_clock = 0

AggregateUnchanged ==
  UNCHANGED <<uonly, config, latencies_, succeeded_log, failed_log, all_wav_i,
              num_active_streams_, num_streams_started_, num_streams_finished_,
              tasks_, total_audio_processed_, print_latency_stats_,
              int_latencies_, final_latencies_, print_stats_rc, printed, request_exit, thread_pool_, steady_clock>>

\* Read() returns the next frame
AggregateRead ==
  /\ client = "aggregate"
  /\ main_pc = "test"
  /\ Call(0).recv_pc = "read"
  /\ Len(Call(0).recv_times) < MaxAggregateFrames
  /\ \E frame \in FrameSet :
       SetCall(0, [BeginFrame(Call(0), frame) EXCEPT !.recv_pc = "results"])
  /\ UNCHANGED <<main_pc, exit_code>>
  /\ AggregateUnchanged

\* for (r < results_size()): audio_processed, AppendResult(result)
AggregateResult ==
  /\ client = "aggregate"
  /\ main_pc = "test"
  /\ Call(0).recv_pc = "results"
  /\ Call(0).result_r <= Len(Call(0).response)
  /\ SetCall(0, ProcessResult(Call(0)))
  /\ UNCHANGED <<main_pc, exit_code>>
  /\ AggregateUnchanged

\* after the loop: the live line is printed and the final flag pushed; the
\* read of a final_transcripts[0] that does not exist prints whatever is
\* there or ends the process
AggregateFrameEnd ==
  /\ client = "aggregate"
  /\ main_pc = "test"
  /\ Call(0).recv_pc = "results"
  /\ Call(0).result_r > Len(Call(0).response)
  /\ \/ /\ SetCall(0, [EndFrame(Call(0)) EXCEPT !.recv_pc = "read"])
        /\ UNCHANGED <<main_pc, exit_code>>
     \/ /\ PrintsPastEnd(Call(0))
        /\ main_pc' = "crashed"
        /\ exit_code' = ExitSegv
        /\ UNCHANGED calls
  /\ AggregateUnchanged

AggregateNext == AggregateRead \/ AggregateResult \/ AggregateFrameEnd

SpecAggregate == InitAggregate /\ [][AggregateNext]_vars

\* ============================================ PrintStats on given samples
\* a client whose latency vectors hold samples recorded one at a time, in any
\* order of arrival, and whose PrintStats() is called on them
InitStats ==
  /\ client = "stats"
  /\ num_files = 0
  /\ num_iterations = 0
  /\ parallel_requests = 1
  /\ simulate_realtime_ = TRUE
  /\ print_transcripts_ = FALSE
  /\ interim_results_ = TRUE
  /\ startup = NoStartup
  /\ main_pc = "test"
  /\ exit_code = NoExit
  /\ latencies_ = <<>>
  /\ succeeded_log = EmptyBag
  /\ failed_log = EmptyBag
  /\ UnaryFieldsInit
  /\ StreamFieldsInit

\* the body of the PostProcessResults loop for one sample: pushed on
\* final_latencies_ or int_latencies_, and on latencies_
StatsRecord ==
  /\ client = "stats"
  /\ Len(latencies_) < MaxStatSamples
  /\ \E lat \in 0..MaxLatency, is_final \in BOOLEAN :
       /\ IF is_final
            THEN /\ final_latencies_' = Append(final_latencies_, lat)
                 /\ UNCHANGED int_latencies_
            ELSE /\ int_latencies_' = Append(int_latencies_, lat)
                 /\ UNCHANGED final_latencies_
       /\ latencies_' = Append(latencies_, lat)
  /\ UNCHANGED <<uonly, config, main_pc, exit_code, succeeded_log, failed_log,
                 all_wav_i, num_active_streams_, num_streams_started_,
                 num_streams_finished_, tasks_, calls, total_audio_processed_,
                 print_latency_stats_, print_stats_rc, printed, request_exit, thread_pool_, steady_clock>>

StatsNext == StatsRecord \/ RecordPrintStats

SpecStats == InitStats /\ [][StatsNext]_vars

\* ============================================ Infer on given correlation ids
\* a client whose Infer / Recognize is called with queries carrying any
\* correlation id, while no call completes
CorrIdSet == 0..MaxTrackId

InitTrack ==
  /\ client = "track"
  /\ num_files = 0
  /\ num_iterations = 0
  /\ parallel_requests = 1
  /\ simulate_realtime_ = FALSE
  /\ print_transcripts_ = FALSE
  /\ interim_results_ = TRUE
  /\ startup = NoStartup
  /\ main_pc = "test"
  /\ exit_code = NoExit
  /\ latencies_ = <<>>
  /\ succeeded_log = EmptyBag
  /\ failed_log = EmptyBag
  /\ UnaryFieldsInit
  /\ StreamFieldsInit

\* client.Infer(std::move(query)) with query->GetCorrId() = corr_id
TrackInfer ==
  /\ client = "track"
  /\ num_requests_ < MaxTrackCalls
  /\ \E corr_id \in CorrIdSet : Infer(corr_id)
  /\ UNCHANGED <<sonly, config, main_pc, exit_code, latencies_, succeeded_log,
                 failed_log, all_query_i, num_responses_, num_failed_requests_,
                 done_sending_, cq_, rpc_pc, got_call, stats_printed>>

TrackNext == TrackInfer

SpecTrack == InitTrack /\ [][TrackNext]_vars

\* ===================================================== main() up to dispatch
\* main() of riva_streaming_asr_client and of riva_nlp_punct from the parsed
\* flags to the first call: "dispatch" is the point where DoStreamingFromFile,
\* DoStreamingFromMicrophone or the dispatch loop is entered
InitStartup ==
  /\ client \in {"streaming_main", "nlp_main"}
  /\ num_files = 0
  /\ num_iterations \in 0..MaxIterations
  /\ parallel_requests \in 1..MaxParallel
  /\ simulate_realtime_ \in BOOLEAN
  /\ print_transcripts_ \in BOOLEAN
  /\ interim_results_ \in BOOLEAN
  /\ startup \in [max_alternatives : 0..1, reachable : BOOLEAN,
                  audio_file : BOOLEAN, audio_device : BOOLEAN,
                  output : BOOLEAN, queries : BOOLEAN]
  /\ main_pc = "flags"
  /\ exit_code = NoExit
  /\ latencies_ = <<>>
  /\ succeeded_log = EmptyBag
  /\ failed_log = EmptyBag
  /\ UnaryFieldsInit
  /\ StreamFieldsInit

StartupUnchanged ==
  UNCHANGED <<uonly, sonly, config, latencies_, succeeded_log, failed_log>>

\* return rc from main()
Return(rc) == main_pc' = "exited" /\ exit_code' = rc

\* streaming: if (FLAGS_max_alternatives < 1) return 1;
\* punct: if (!FLAGS_output.empty() && FLAGS_parallel_requests > 1) return 1;
StartupFlags ==
  /\ main_pc = "flags"
  /\ IF client = "streaming_main"
       THEN IF startup.max_alternatives < 1
              THEN Return(1)
              ELSE main_pc' = "channel" /\ UNCHANGED exit_code
       ELSE IF startup.output /\ parallel_requests > 1
              THEN Return(1)
              ELSE main_pc' = "channel" /\ UNCHANGED exit_code
  /\ StartupUnchanged

\* try { CreateChannelBlocking(...) } catch (...) { return 1; }: the call
\* throws when WaitForConnected did not succeed by the deadline
StartupChannel ==
  /\ main_pc = "channel"
  /\ IF ~startup.reachable
       THEN Return(1)
       ELSE /\ main_pc' = IF client = "streaming_main" THEN "source" ELSE "load"
            /\ UNCHANGED exit_code
  /\ StartupUnchanged

\* the checks of the microphone branch, in order; each failure returns 1
MicFlagsOk ==
  /\ parallel_requests = 1
  /\ interim_results_
  /\ print_transcripts_
  /\ ~simulate_realtime_
  /\ num_iterations = 1

\* if (FLAGS_audio_file.size()) DoStreamingFromFile
\* else if (FLAGS_audio_device.size()) { checks; DoStreamingFromMicrophone }
\* else { "No audio files or audio device specified, exiting" }  return 0;
StartupSource ==
  /\ main_pc = "source"
  /\ IF startup.audio_file
       THEN main_pc' = "dispatch" /\ UNCHANGED exit_code
       ELSE IF startup.audio_device
              THEN IF MicFlagsOk
                     THEN main_pc' = "dispatch" /\ UNCHANGED exit_code
                     ELSE Return(1)
              ELSE Return(0)
  /\ StartupUnchanged

\* punct: ok = LoadStringData(all_queries, FLAGS_queries); if (!ok) return 1;
StartupLoad ==
  /\ main_pc = "load"
  /\ IF ~startup.queries
       THEN Return(1)
       ELSE main_pc' = "dispatch" /\ UNCHANGED exit_code
  /\ StartupUnchanged

StartupNext == StartupFlags \/ StartupChannel \/ StartupSource \/ StartupLoad

SpecStartup == InitStartup /\ [][StartupNext]_vars

\* ================================== GenerateRequests down to small chunks
\* GenerateRequests on one file whose sample rate times the chunk duration
\* may be below 1000, as with --chunk_duration_ms=0: chunk_size is then 0
DrainRates == {SampleRate \div 4, SampleRate}

\* the rounds of the writer's loop that are followed
MaxDrainChunks == MaxPacerSamples + 2

InitDrain ==
  /\ client = "drain"
  /\ simulate_realtime_ \in BOOLEAN
  /\ \E size \in PacerSizes, rate \in DrainRates :
       calls = <<[NewCall(0, size) EXCEPT !.sample_rate = rate,
                                          !.gen_pc = "config"]>>
  /\ WriterFieldsInit

DrainNext ==
  /\ client = "drain"
  /\ \/ GenConfig(0)
          /\ UNCHANGED <<total_audio_processed_, num_active_streams_, steady_clock>>
     \/ /\ Len(Call(0).send_times) < MaxDrainChunks
        /\ GenChunk(0)
        /\ UNCHANGED <<total_audio_processed_, num_active_streams_>>
     \/ GenAccount(0) /\ UNCHANGED <<num_active_streams_, steady_clock>>
     \/ GenRelease(0) /\ UNCHANGED <<total_audio_processed_, steady_clock>>
  /\ UNCHANGED <<request_exit, thread_pool_>>
  /\ WriterUnchanged

SpecDrain == InitDrain /\ [][DrainNext]_vars

\* the worker thread that runs the task keeps running it
FairSpecDrain == SpecDrain /\ WF_vars(DrainNext)

\* ============================================================ ThreadPool
\* the pool on its own: any thread enqueues jobs while the object exists,
\* the owner destroys it; and the pool as DoStreamingFromFile uses it, with
\* the two tasks of each stream taken as one step each
MaxThreads == 2
MaxJobs == 3
MaxPoolStreams == 5

NoTask == [kind |-> "none", id |-> 0]

\* a worker blocked in cv_.wait
Waiting == [pc |-> "wait", task |-> NoTask]

\* ThreadPool(threads): stop_(false), outstanding_tasks_(0), workers launched
NewPool(threads) ==
  [NoPool EXCEPT !.threads_ = [w \in 1..threads |-> Waiting]]

Workers == 1..Len(thread_pool_.threads_)

InitPool ==
  /\ client = "pool"
  /\ num_files = 0
  /\ num_iterations = 0
  /\ parallel_requests = 1
  /\ simulate_realtime_ = FALSE
  /\ print_transcripts_ = FALSE
  /\ interim_results_ = TRUE
  /\ startup = NoStartup
  /\ main_pc = "pool_use"
  /\ exit_code = NoExit
  /\ latencies_ = <<>>
  /\ succeeded_log = EmptyBag
  /\ failed_log = EmptyBag
  /\ UnaryFieldsInit
  /\ all_wav_i = 0
  /\ num_active_streams_ = 0
  /\ num_streams_started_ = 0
  /\ num_streams_finished_ = 0
  /\ tasks_ = <<>>
  /\ calls = <<>>
  /\ total_audio_processed_ = 0
  /\ print_latency_stats_ = TRUE
  /\ int_latencies_ = <<>>
  /\ final_latencies_ = <<>>
  /\ print_stats_rc = NoExit
  /\ printed = <<>>
  /\ request_exit = FALSE
  /\ \E threads \in 1..MaxThreads : thread_pool_ = NewPool(threads)
  /\ steady_clock = 0

\* the StreamingRecognizeClient constructor has made ThreadPool(4 * L) and
\* DoStreamingFromFile has loaded one file
InitPoolStream ==
  /\ client = "pool_stream"
  /\ num_files = 1
  /\ num_iterations \in 0..MaxPoolStreams
  /\ parallel_requests = 1
  /\ simulate_realtime_ = FALSE
  /\ print_transcripts_ = FALSE
  /\ interim_results_ = TRUE
  /\ startup = NoStartup
  /\ main_pc = "spoll"
  /\ exit_code = NoExit
  /\ latencies_ = <<>>
  /\ succeeded_log = EmptyBag
  /\ failed_log = EmptyBag
  /\ UnaryFieldsInit
  /\ all_wav_i = 0
  /\ num_active_streams_ = 0
  /\ num_streams_started_ = 0
  /\ num_streams_finished_ = 0
  /\ tasks_ = <<>>
  /\ calls = <<>>
  /\ total_audio_processed_ = 0
  /\ print_latency_stats_ = TRUE
  /\ int_latencies_ = <<>>
  /\ final_latencies_ = <<>>
  /\ print_stats_rc = NoExit
  /\ printed = <<>>
  /\ request_exit = FALSE
  /\ thread_pool_ = NewPool(NumWorkers)
  /\ steady_clock = 0

PoolUnchanged ==
  UNCHANGED <<uonly, config, exit_code, latencies_, succeeded_log, failed_log,
              calls, total_audio_processed_, print_latency_stats_,
              int_latencies_, final_latencies_, print_stats_rc, printed,
              request_exit, steady_clock>>

\* Enqueue under queue_mutex_: throws on a stopped pool, else counts the task
\* and puts it at the back of tasks_
Enqueue(task) ==
  IF thread_pool_.stop_
    THEN /\ thread_pool_' = [thread_pool_ EXCEPT !.rejected = Append(@, task)]
         /\ UNCHANGED tasks_
    ELSE /\ thread_pool_' = [thread_pool_ EXCEPT !.outstanding_tasks_ = @ + 1,
                                                 !.accepted = Append(@, task)]
         /\ tasks_' = Append(tasks_, task)

\* some thread calls Enqueue while the pool object exists
PoolEnqueue ==
  /\ client = "pool"
  /\ main_pc \in {"pool_use", "pool_join"}
  /\ Len(thread_pool_.accepted) + Len(thread_pool_.rejected) < MaxJobs
  /\ Enqueue([kind |-> "job",
              id |-> Len(thread_pool_.accepted) + Len(thread_pool_.rejected)])
  /\ UNCHANGED <<main_pc, all_wav_i, num_active_streams_, num_streams_started_,
                 num_streams_finished_>>
  /\ PoolUnchanged

\* ~ThreadPool: { lock; stop_ = true; }  cv_.notify_all();
PoolStop ==
  /\ client = "pool"
  /\ main_pc = "pool_use"
  /\ thread_pool_' = [thread_pool_ EXCEPT !.stop_ = TRUE]
  /\ main_pc' = "pool_join"
  /\ UNCHANGED <<tasks_, all_wav_i, num_active_streams_, num_streams_started_,
                 num_streams_finished_>>
  /\ PoolUnchanged

\* for (worker : threads_) worker.join();  the destructor returns
PoolJoin ==
  /\ client = "pool"
  /\ main_pc = "pool_join"
  /\ \A w \in Workers : thread_pool_.threads_[w].pc = "returned"
  /\ main_pc' = "pool_destroyed"
  /\ UNCHANGED <<tasks_, thread_pool_, all_wav_i, num_active_streams_,
                 num_streams_started_, num_streams_finished_>>
  /\ PoolUnchanged

WorkerTake_Lifo(w) ==
  /\ thread_pool_.threads_[w].pc = "wait"
  /\ thread_pool_.stop_ \/ tasks_ # <<>>
  /\ IF tasks_ = <<>>
       THEN /\ thread_pool_' = [thread_pool_ EXCEPT !.threads_[w].pc = "returned"]
            /\ UNCHANGED tasks_
       ELSE /\ thread_pool_' =
                 [thread_pool_ EXCEPT
                    !.threads_[w] = [pc |-> "run", task |-> tasks_[Len(tasks_)]],
                    !.dequeued = Append(@, tasks_[Len(tasks_)])]
            /\ tasks_' = SubSeq(tasks_, 1, Len(tasks_) - 1)

\* the locked part of the worker loop: cv_.wait until stop_ or a task is
\* there; return when stopped and empty, else pop the front task
WorkerTake(w) ==
  /\ thread_pool_.threads_[w].pc = "wait"
  /\ thread_pool_.stop_ \/ tasks_ # <<>>
  /\ IF tasks_ = <<>>
       THEN /\ thread_pool_' = [thread_pool_ EXCEPT !.threads_[w].pc = "returned"]
            /\ UNCHANGED tasks_
       ELSE /\ thread_pool_' =
                 [thread_pool_ EXCEPT
                    !.threads_[w] = [pc |-> "run", task |-> Head(tasks_)],
                    !.dequeued = Append(@, Head(tasks_))]
            /\ tasks_' = Tail(tasks_)

\* the task of a stream has run to its end
Finished(kind, id) == [kind |-> kind, id |-> id] \in thread_pool_.finished

\* task(): a job just runs; GenerateRequests ends with num_active_streams_--;
\* ReceiveResponses ends with num_streams_finished_++, once the remote has
\* ended the stream, which it does after the audio was written
WorkerRun(w) ==
  LET task == thread_pool_.threads_[w].task IN
    /\ thread_pool_.threads_[w].pc = "run"
    /\ task.kind = "recv" => Finished("gen", task.id)
    /\ thread_pool_' = [thread_pool_ EXCEPT !.threads_[w].pc = "account",
                                            !.finished = @ \cup {task}]
    /\ num_active_streams_' =
         IF task.kind = "gen" THEN num_active_streams_ - 1 ELSE num_active_streams_
    /\ num_streams_finished_' =
         IF task.kind = "recv" THEN num_streams_finished_ + 1
         ELSE num_streams_finished_
    /\ UNCHANGED tasks_

\* outstanding_tasks_--;  back to the top of the loop
WorkerAccount(w) ==
  /\ thread_pool_.threads_[w].pc = "account"
  /\ thread_pool_' = [thread_pool_ EXCEPT !.outstanding_tasks_ = @ - 1,
                                          !.threads_[w] = Waiting]

PoolWorker ==
  /\ client \in {"pool", "pool_stream"}
  /\ \E w \in Workers :
       \/ WorkerTake(w) /\ UNCHANGED <<num_active_streams_, num_streams_finished_>>
       \/ WorkerRun(w)
       \/ WorkerAccount(w)
            /\ UNCHANGED <<tasks_, num_active_streams_, num_streams_finished_>>
  /\ UNCHANGED <<main_pc, all_wav_i, num_streams_started_>>
  /\ PoolUnchanged

PoolNext == PoolEnqueue \/ PoolStop \/ PoolJoin \/ PoolWorker

SpecPool == InitPool /\ [][PoolNext]_vars

\* every worker thread keeps being scheduled, and jobs end
FairSpecPool == SpecPool /\ WF_vars(PoolWorker)

StartTasks_ReadFirst(corr_id) ==
  <<[kind |-> "recv", id |-> corr_id], [kind |-> "gen", id |-> corr_id]>>

\* StartNewStream: Enqueue(gen_func); Enqueue(recv_func);
StartTasks(corr_id) ==
  <<[kind |-> "gen", id |-> corr_id], [kind |-> "recv", id |-> corr_id]>>

\* StartNewStream up to Enqueue(gen_func)
PoolStartGen ==
  /\ main_pc = "start"
  /\ num_active_streams_' = num_active_streams_ + 1
  /\ num_streams_started_' = num_streams_started_ + 1
  /\ Enqueue(StartTasks(all_wav_i)[1])
  /\ main_pc' = "start_recv"
  /\ UNCHANGED <<all_wav_i, num_streams_finished_>>
  /\ PoolUnchanged

\* Enqueue(recv_func);  ++all_wav_i;
PoolStartRecv ==
  /\ main_pc = "start_recv"
  /\ Enqueue(StartTasks(all_wav_i)[2])
  /\ all_wav_i' = all_wav_i + 1
  /\ main_pc' = "spoll"
  /\ UNCHANGED <<num_active_streams_, num_streams_started_, num_streams_finished_>>
  /\ PoolUnchanged

\* the loop of DoStreamingFromFile
PoolStreamMain ==
  /\ client = "pool_stream"
  /\ (StreamPoll \/ PoolStartGen \/ PoolStartRecv \/ StreamBreak)

PoolStreamNext == PoolStreamMain \/ PoolWorker

SpecPoolStream == InitPoolStream /\ [][PoolStreamNext]_vars

\* ================================================== the whole repository
Init == InitUnary \/ InitStream
Next == UnaryNext \/ StreamNext
Spec == Init /\ [][Next]_vars

Unary == client \in {"nlp", "asr"}

\* ------------------------------------------------------------------ C1
\* C1: the tracked in-flight count never exceeds the concurrency limit L:
\* |curr_tasks_| <= L in the unary clients, num_active_streams_ <= L in the
\* streaming client, in every reachable state.
C1_InFlightBounded ==
  /\ NumActiveTasks <= parallel_requests
  /\ NumActiveStreams <= parallel_requests

\* the limit is reached while payloads are still queued and the gate refuses
C1_Witness ==
  /\ Unary
  /\ parallel_requests > 1
  /\ NumActiveTasks = parallel_requests
  /\ all_query_i < all_query_max
  /\ main_pc = "break"

\* fairness: the main thread, the AsyncCompleteRpc thread and the endpoint
\* (every started call completes) each keep taking their enabled steps
FairSpecUnary ==
  /\ SpecUnary
  /\ WF_vars(MainNext)
  /\ WF_vars(RpcThreadNext)
  /\ WF_vars(ServerComplete)

\* main() went through the final report (as opposed to an early return)
Reported == Unary /\ main_pc = "exited" /\ rpc_pc = "returned"

\* calls whose RPC status was not OK: counted ones and ones left on cq_
FailedCalls ==
  BagCardinality(failed_log)
  + Cardinality({i \in DOMAIN cq_ : cq_[i].status # "OK"})

\* ------------------------------------------------------------------ C2
\* C2: AsyncCompleteRpc returns only in a state where done_sending_ is true
\* and num_responses_ == num_requests_ (no dispatched call is uncompleted).
C2_NoEarlyStop ==
  rpc_pc = "returned" => (done_sending_ /\ num_responses_ = num_requests_)

\* ------------------------------------------------------------------ C3
\* C3: once DoneSending has been called and every dispatched call has been
\* completed, AsyncCompleteRpc returns and main's join completes.
C3_AllCompleted ==
  /\ Unary
  /\ num_requests_ >= 1
  /\ done_sending_
  /\ num_responses_ = num_requests_

C3_Joined == rpc_pc = "returned" /\ main_pc \in {"report", "exited"}

C3_DrainReturns == C3_AllCompleted ~> C3_Joined

\* ------------------------------------------------------------------ C4
\* C4: when the drain loop has terminated, every dispatched correlation id
\* was resolved exactly once, as one latency sample or one failure count:
\* |latencies_| + num_failed_requests_ == num_responses_ == num_requests_.
C4_ResolvedExactlyOnce ==
  rpc_pc = "returned" =>
    /\ Len(latencies_) + num_failed_requests_ = num_responses_
    /\ num_responses_ = num_requests_
    /\ \A id \in 0..(num_requests_ - 1) :
         CopiesIn(id, succeeded_log) + CopiesIn(id, failed_log) = 1

\* ------------------------------------------------------------------ C5
\* C5: a unary call completing with a non-OK status adds one to
\* num_failed_requests_ and no latency sample, then its id is erased from
\* curr_tasks_ and num_responses_ is incremented; it is never dispatched
\* again, and the dispatch loop still admits every payload.
C5_FailureStep ==
  (rpc_pc = "status" /\ rpc_pc' # "status" /\ got_call.status # "OK") =>
    /\ num_failed_requests_' = num_failed_requests_ + 1
    /\ latencies_' = latencies_
    /\ rpc_pc' = "erase"

C5_ReleaseStep ==
  (rpc_pc = "erase" /\ rpc_pc' # "erase") =>
    /\ curr_tasks_' = curr_tasks_ \ {got_call.id}
    /\ num_responses_' = num_responses_ + 1

C5_FailureState ==
  /\ \A id \in BagToSet(failed_log) :
       /\ CopiesIn(id, failed_log) = 1
       /\ CopiesIn(id, succeeded_log) = 0
       /\ id \notin pending
       /\ id < all_query_i
       /\ (rpc_pc \in {"check", "check_done", "next", "returned"}
             => id \notin curr_tasks_)
  /\ num_failed_requests_ = BagCardinality(failed_log)
  /\ (main_pc \in {"done_sending", "join", "report"} \/ Reported
        => all_query_i = all_query_max)

C6_RunReport ==
  Reported =>
    IF FailedCalls = 0
      THEN /\ Len(latencies_) = all_query_max
           /\ num_failed_requests_ = 0
           /\ stats_printed
      ELSE /\ num_failed_requests_ = FailedCalls
           /\ ~stats_printed

\* ------------------------------------------------------------------ C7
\* C7: the exit code is 1 whenever at least one call of the run failed, and
\* 0 only when every call succeeded.
C7_ExitCodeOnFailure ==
  (main_pc = "exited" /\ failed_log # EmptyBag) => exit_code = 1

\* ------------------------------------------------------------------ C8
\* C8: on a completion with ok == false AsyncCompleteRpc aborts the process
\* before latencies_, num_failed_requests_, curr_tasks_ or num_responses_
\* is modified for that completion (and nothing is modified afterwards).
C8_AbortStep ==
  (rpc_pc = "assert" /\ rpc_pc' # "assert" /\ ~got_call.ok) =>
    /\ rpc_pc' = "aborted"
    /\ exit_code' = ExitAbort
    /\ UNCHANGED <<latencies_, num_failed_requests_, curr_tasks_, num_responses_>>

C8_Aborted ==
  rpc_pc = "aborted" =>
    /\ ~got_call.ok
    /\ got_call.id \in curr_tasks_
    /\ CopiesIn(got_call.id, succeeded_log) + CopiesIn(got_call.id, failed_log) = 0
    /\ Len(latencies_) + num_failed_requests_ = num_responses_

C8_AbortBeforeEffects ==
  /\ [][C8_AbortStep]_vars
  /\ [](C8_Aborted)
  /\ [][rpc_pc = "aborted" =>
          UNCHANGED <<latencies_, num_failed_requests_, curr_tasks_,
                      num_responses_, rpc_pc>>]_vars

\* the abort hits after an earlier completion was processed normally
C8_Witness ==
  /\ rpc_pc = "aborted"
  /\ num_responses_ >= 1
  /\ exit_code = ExitAbort

\* ------------------------------------------------------------------ C9
\* C9: PostProcessResults on a call with S send times and R receive times:
\* if R = S or R = S + 1, print_latency_stats_ is left unchanged and (in a
\* realtime run without an earlier violation) PrintStats returns 0; for any
\* other R, print_latency_stats_ becomes false, no latency sample of the call
\* is appended, and PrintStats returns 1.
C9_RecordStep ==
  (Len(calls') = Len(calls) + 1) =>
    LET call == calls'[Len(calls')]
        S == Len(call.send_times)
        R == Len(call.recv_times)
    IN IF R = S \/ R = S + 1
         THEN /\ print_latency_stats_' = print_latency_stats_
              /\ Len(latencies_') = Len(latencies_) + S
              /\ (print_latency_stats_ /\ simulate_realtime_ => PrintStats' = 0)
         ELSE /\ print_latency_stats_' = FALSE
              /\ latencies_' = latencies_
              /\ int_latencies_' = int_latencies_
              /\ final_latencies_' = final_latencies_
              /\ PrintStats' = 1

C9_PrintStatsStep ==
  (print_stats_rc' # print_stats_rc) =>
    print_stats_rc' = IF print_latency_stats_ /\ simulate_realtime_ THEN 0 ELSE 1

C9_LengthPrecondition == [][C9_RecordStep /\ C9_PrintStatsStep]_vars

\* a valid S+1 call was recorded and PrintStats returned 0, then a call
\* with S+2 receive times was processed
C9_Witness ==
  /\ client = "record"
  /\ Len(calls) = 2
  /\ Len(calls[1].send_times) = 1 /\ Len(calls[1].recv_times) = 2
  /\ Len(calls[2].send_times) = 1 /\ Len(calls[2].recv_times) = 3
  /\ Len(latencies_) = 1
  /\ print_stats_rc = 0
  /\ ~print_latency_stats_

\* ----------------------------------------------------------------- C10
\* C10: once PostProcessResults of one call has violated the length
\* precondition, print_latency_stats_ stays false in every later state (a
\* later valid call does not set it back) and PrintStats returns 1.
C10_Latched ==
  ~print_latency_stats_ =>
    /\ ~print_latency_stats_'
    /\ (print_stats_rc' # print_stats_rc => print_stats_rc' = 1)
    /\ PrintStats' = 1

C10_SuppressionPermanent == [][C10_Latched]_vars

\* a violating call, then a valid call that added its sample, then PrintStats
C10_Witness ==
  /\ client = "record"
  /\ simulate_realtime_
  /\ Len(calls) = 2
  /\ Len(calls[1].recv_times) = Len(calls[1].send_times) + 2
  /\ Len(calls[2].send_times) = 1 /\ Len(calls[2].recv_times) = 1
  /\ Len(latencies_) = 1
  /\ ~print_latency_stats_
  /\ print_stats_rc = 1

\* ------------------------------------------------------------------ C11
\* the indices of the sends whose frame carried a final fragment, ascending
C11_FinalIdx(call, want) ==
  SelectSeq([i \in 1..Len(call.send_times) |-> i],
            LAMBDA i : call.recv_final_flags[i] = want)

\* the samples recv_times[i] - send_times[i] of the given indices
C11_Samples(call, idx) ==
  [k \in 1..Len(idx) |-> call.recv_times[idx[k]] - call.send_times[idx[k]]]

\* a PostProcessResults step on a call with |recv| = |send| or |send| + 1
C11_RecordsCall ==
  /\ client = "record"
  /\ Len(calls') = Len(calls) + 1
  /\ LET call == calls'[Len(calls')] IN
       Len(call.recv_times) - Len(call.send_times) \in {0, 1}

C11_Step ==
  /\ Len(latencies_') = Len(final_latencies_') + Len(int_latencies_')
  /\ C11_RecordsCall =>
       LET call == calls'[Len(calls')]
           S == Len(call.send_times)
       IN /\ Len(latencies_') = Len(latencies_) + S
          /\ latencies_' =
               latencies_ \o [i \in 1..S |-> call.recv_times[i] - call.send_times[i]]
          /\ final_latencies_' =
               final_latencies_ \o C11_Samples(call, C11_FinalIdx(call, TRUE))
          /\ int_latencies_' =
               int_latencies_ \o C11_Samples(call, C11_FinalIdx(call, FALSE))

C12_Shuffles(samples) ==
  {[i \in 1..Len(samples) |-> samples[f[i]]] : f \in Permutations(1..Len(samples))}

\* a PrintStats() step of the statistics client on a non-empty latencies_
C12_PrintStep ==
  /\ client = "stats"
  /\ Len(latencies_') = Len(latencies_)
  /\ latencies_ # <<>>

C12_Step ==
  C12_PrintStep =>
    \A shuffled \in C12_Shuffles(latencies_) :
      PrintLatencies(shuffled, "Latencies") = <<printed'[1]>>

\* C12: the reported p50, p90, p95, p99 and mean depend only on the multiset
\* of samples: the line PrintStats prints for a non-empty sample list is the
\* line it would print for every permutation of that list.
C12_OrderIndependent == [][C12_Step]_vars

\* statistics were printed for four samples that were recorded out of order,
\* with distinct median and 99th percentile
C12_Witness ==
  /\ client = "stats"
  /\ printed # <<>>
  /\ printed[1].avg[2] = MaxStatSamples
  /\ printed[1].median # printed[1].lat_99
  /\ final_latencies_ # <<>>
  /\ int_latencies_ # <<>>

\* ------------------------------------------------------------------ C13
\* v is the element at zero-based index i of the ascending order of samples
C13_IsOrderStatistic(samples, i, v) ==
  /\ \E k \in 1..Len(samples) : samples[k] = v
  /\ Cardinality({k \in 1..Len(samples) : samples[k] < v}) <= i
  /\ Cardinality({k \in 1..Len(samples) : samples[k] <= v}) >= i + 1

\* the percentile p of the printed line is the order statistic of index
\* floor(p * n / 100), an index within 0..n-1
C13_Percentile(samples, p, v) ==
  LET n == Len(samples) IN
    \E i \in 0..(n - 1) :
      /\ 100 * i <= p * n
      /\ p * n < 100 * (i + 1)
      /\ C13_IsOrderStatistic(samples, i, v)

C13_Step ==
  C12_PrintStep =>
    /\ C13_Percentile(latencies_, 50, printed'[1].median)
    /\ C13_Percentile(latencies_, 90, printed'[1].lat_90)
    /\ C13_Percentile(latencies_, 95, printed'[1].lat_95)
    /\ C13_Percentile(latencies_, 99, printed'[1].lat_99)

\* C13: for every non-empty sample list of size n and p in {50, 90, 95, 99}
\* the reported percentile is the element at zero-based index
\* floor(p * n / 100) of the ascending-sorted list, and that index lies
\* within 0..n-1.
C13_PercentileIndexInRange == [][C13_Step]_vars

\* a line was printed for two samples 0 and 2: the median is the upper one
C13_Witness ==
  /\ client = "stats"
  /\ printed # <<>>
  /\ printed[1].avg = <<2, 2>>
  /\ printed[1].median = 2
  /\ latencies_ = <<0, 2>>

\* ------------------------------------------------------------------ C14
\* the content (first alternative) of the non-final results r..k of a frame,
\* concatenated in order
RECURSIVE C14_NonFinalText(_, _, _)
C14_NonFinalText(frame, r, k) ==
  IF r > k THEN <<>>
  ELSE (IF ~frame[r].is_final /\ Len(frame[r].alternatives) > 0
          THEN frame[r].alternatives[1].transcript ELSE <<>>)
         \o C14_NonFinalText(frame, r + 1, k)

RECURSIVE C14_NonFinalWords(_, _, _)
C14_NonFinalWords(frame, r, k) ==
  IF r > k THEN <<>>
  ELSE (IF ~frame[r].is_final /\ Len(frame[r].alternatives) > 0
          THEN frame[r].alternatives[1].words ELSE <<>>)
         \o C14_NonFinalWords(frame, r + 1, k)

\* C14: with transcript aggregation enabled, after ReceiveResponses has
\* processed any sequence of frames, partial_transcript and
\* partial_time_stamps hold the content of the non-final fragments of the
\* most recent frame only; nothing of an earlier frame remains.
C14_PartialOfLastFrame ==
  \A c \in CorrIds :
    LET call == Call(c) IN
      (client = "aggregate" /\ print_transcripts_ /\ call.recv_pc = "read"
         /\ call.responses # <<>>) =>
        LET frame == call.responses[Len(call.responses)] IN
          /\ call.latest_result_.partial_transcript =
               C14_NonFinalText(frame, 1, Len(frame))
          /\ call.latest_result_.partial_time_stamps =
               IF call.word_time_offsets_
                 THEN C14_NonFinalWords(frame, 1, Len(frame)) ELSE <<>>

\* two non-final frames [a] then [a, b] were processed and the partial state
\* is a, b
C14_Witness ==
  /\ client = "aggregate"
  /\ print_transcripts_
  /\ Call(0).recv_pc = "read"
  /\ Call(0).word_time_offsets_
  /\ Len(Call(0).responses) = 2
  /\ Len(Call(0).responses[1]) = 1
  /\ ~Call(0).responses[1][1].is_final
  /\ Len(Call(0).responses[1][1].alternatives) = 1
  /\ Call(0).responses[1][1].alternatives[1].transcript = <<"a">>
  /\ Len(Call(0).responses[2]) = 1
  /\ ~Call(0).responses[2][1].is_final
  /\ Len(Call(0).responses[2][1].alternatives) = 1
  /\ Call(0).responses[2][1].alternatives[1].transcript = <<"a", "b">>
  /\ Call(0).latest_result_.partial_transcript = <<"a", "b">>
  /\ Call(0).latest_result_.partial_time_stamps = <<"a", "b">>

\* ------------------------------------------------------------------ C15
\* the aggregator has just processed result result_r - 1 of the frame, a
\* non-final one with content
C15_AfterNonFinal(call) ==
  /\ client = "aggregate"
  /\ print_transcripts_
  /\ call.recv_pc = "results"
  /\ call.result_r > 1
  /\ ~call.response[call.result_r - 1].is_final
  /\ Len(call.response[call.result_r - 1].alternatives) > 0

\* C15 as stated: after every non-final fragment the partial text and the
\* partial token sequence equal that fragment's content alone, also when the
\* frame carries several non-final fragments.
C15_PartialIsLastFragment ==
  \A c \in CorrIds :
    LET call == Call(c) IN
      C15_AfterNonFinal(call) =>
        LET result == call.response[call.result_r - 1] IN
          /\ call.latest_result_.partial_transcript =
               result.alternatives[1].transcript
          /\ call.latest_result_.partial_time_stamps =
               IF call.word_time_offsets_ THEN result.alternatives[1].words
               ELSE <<>>

\* C15 amended: after every non-final fragment the partial text and the
\* partial token sequence equal the concatenation, in order, of the contents
\* of the non-final fragments of the current frame processed so far, which is
\* the fragment's content alone when it is the frame's first such fragment.
C15_PartialWithinFrame ==
  \A c \in CorrIds :
    LET call == Call(c) IN
      C15_AfterNonFinal(call) =>
        /\ call.latest_result_.partial_transcript =
             C14_NonFinalText(call.response, 1, call.result_r - 1)
        /\ call.latest_result_.partial_time_stamps =
             IF call.word_time_offsets_
               THEN C14_NonFinalWords(call.response, 1, call.result_r - 1)
               ELSE <<>>
        /\ (C14_NonFinalText(call.response, 1, call.result_r - 2) = <<>>
              => call.latest_result_.partial_transcript =
                   call.response[call.result_r - 1].alternatives[1].transcript)

\* the two non-final fragments [a] and [a, b] of one frame were processed:
\* the partial text is a, a, b
C15_Witness ==
  /\ C15_AfterNonFinal(Call(0))
  /\ Call(0).result_r = 3
  /\ ~Call(0).response[1].is_final
  /\ Len(Call(0).response[1].alternatives) > 0
  /\ Call(0).response[1].alternatives[1].transcript = <<"a">>
  /\ Call(0).response[2].alternatives[1].transcript = <<"a", "b">>
  /\ Call(0).latest_result_.partial_transcript = <<"a", "a", "b">>

\* ------------------------------------------------------------------ C16
C16_IsPrefix(s, t) == Len(s) <= Len(t) /\ SubSeq(t, 1, Len(s)) = s

C16_Step ==
  \A c \in CorrIds :
    (client = "aggregate" /\ c + 1 <= Len(calls')) =>
      LET before == Call(c).latest_result_.final_transcripts
          after == calls'[c + 1].latest_result_.final_transcripts
      IN \A a \in 1..Len(before) :
           /\ a <= Len(after)
           /\ C16_IsPrefix(before[a], after[a])

\* C16: final text is append-only per alternative rank: after each
\* AppendResult the accumulated final transcript of every rank has its
\* previous value as a prefix; it is never shortened or dropped, also when a
\* later final fragment carries fewer (or no) alternatives, and non-final
\* fragments leave it unchanged.
C16_FinalAppendOnly == [][C16_Step]_vars

\* ------------------------------------------------------------------ C17
\* the audio requests written on the call's stream, in order
C17_AudioWrites(call) == SelectSeq(call.writes, LAMBDA w : w.kind = "audio")

\* the writer has left its loop
C17_WriterFinished(call) == call.gen_pc \in {"account", "release", "done", "returned"}

\* C17: on every stream written by the file pacer exactly one
\* stream-configuration frame is written, it is the first frame written, and
\* every later frame is an audio chunk.
C17_ConfigFirstOnce ==
  \A c \in CorrIds :
    LET call == Call(c) IN
      client = "pacer" =>
        /\ call.gen_pc \in {"queued", "config"} => call.writes = <<>>
        /\ call.gen_pc \notin {"queued", "config"} =>
             /\ Len(call.writes) >= 1
             /\ call.writes[1].kind = "config"
             /\ \A i \in 2..Len(call.writes) :
                  call.writes[i].kind \in {"audio", "writes_done"}
             /\ \A i \in 2..Len(call.writes) :
                  call.writes[i].kind = "writes_done" => i = Len(call.writes)

\* the pacer finished a file of four samples: config, then three chunks
C17_Witness ==
  /\ client = "pacer"
  /\ Call(0).gen_pc = "done"
  /\ Call(0).data_size = HeaderSize + 4 * SampleBytes
  /\ Call(0).writes[1].kind = "config"
  /\ Len(C17_AudioWrites(Call(0))) >= 3

\* ------------------------------------------------------------------ C18
\* C18: the audio chunks of one call are consecutive, non-overlapping slices
\* of the payload in strictly increasing offset order: each chunk starts
\* where the previous one ended (the first at 0), stream->offset is the end
\* of the last chunk, and when the writer finishes the chunks cover the whole
\* payload (offset = data.size()).
C18_ChunksConsecutive ==
  \A c \in CorrIds :
    LET call == Call(c)
        audio == C17_AudioWrites(call)
    IN client = "pacer" =>
         /\ \A i \in 1..Len(audio) :
              /\ audio[i].size > 0
              /\ audio[i].offset =
                   IF i = 1 THEN 0 ELSE audio[i - 1].offset + audio[i - 1].size
              /\ audio[i].offset + audio[i].size <= call.data_size
         /\ call.offset =
              IF audio = <<>> THEN 0
              ELSE audio[Len(audio)].offset + audio[Len(audio)].size
         /\ C17_WriterFinished(call) => call.offset = call.data_size

\* the writer finished a file of five samples sent in at least four chunks
C18_Witness ==
  /\ client = "pacer"
  /\ C17_WriterFinished(Call(0))
  /\ Call(0).data_size = HeaderSize + 5 * SampleBytes
  /\ Call(0).offset = Call(0).data_size
  /\ Len(C17_AudioWrites(Call(0))) >= 4
  /\ C17_AudioWrites(Call(0))[2].offset = HeaderSize + ChunkSize(Call(0))

\* ------------------------------------------------------------------ C19
C19_Ceil(a, b) == (a + b - 1) \div b

\* durations in units of 1 / sample_rate milliseconds: a run of k samples
\* lasts k * 1000 units, the chunk duration d is sample_rate * d[ms] units
C19_Total(call) == ((call.data_size - HeaderSize) \div SampleBytes) * 1000

C19_Nominal(call) == call.sample_rate * ChunkDurationMs

C19_Duration(w) ==
  ((w.size - (IF w.offset = 0 THEN HeaderSize ELSE 0)) \div SampleBytes) * 1000

\* C19: in non-realtime mode, for a payload of audio duration T and chunk
\* duration d > 0, the number of audio chunks written is ceil(T/d), the last
\* chunk lasts T mod d (d when T is a multiple of d) and every other chunk
\* lasts exactly d.
C19_ChunkCount ==
  \A c \in CorrIds :
    LET call == Call(c)
        audio == C17_AudioWrites(call)
        T == C19_Total(call)
        d == C19_Nominal(call)
    IN (client = "pacer" /\ ~simulate_realtime_ /\ C17_WriterFinished(call)
          /\ T > 0) =>
         /\ Len(audio) = C19_Ceil(T, d)
         /\ \A i \in 1..(Len(audio) - 1) : C19_Duration(audio[i]) = d
         /\ C19_Duration(audio[Len(audio)]) = IF T % d = 0 THEN d ELSE T % d

\* ------------------------------------------------------------------ C20
C20_Done(call) ==
  {i \in 1..Len(call.writes) : call.writes[i].kind = "writes_done"}

\* C20: in every run of a stream writer WritesDone is signalled exactly
\* once, right after the chunk that exhausts the payload (the file) or ends
\* the capture (the microphone), and no Write follows it.
C20_WritesDoneOnce ==
  \A c \in CorrIds :
    LET call == Call(c)
        w == call.writes
    IN client \in {"pacer", "mic"} =>
         /\ Cardinality(C20_Done(call)) <= 1
         /\ (C20_Done(call) # {}) = C17_WriterFinished(call)
         /\ \A i \in C20_Done(call) :
              /\ i = Len(w)
              /\ i > 1
              /\ w[i - 1].kind = "audio"
              /\ client = "pacer" =>
                   /\ w[i - 1].offset + w[i - 1].size = call.data_size
                   /\ \A j \in 1..(i - 2) :
                        w[j].kind = "audio" =>
                          w[j].offset + w[j].size < call.data_size

\* the microphone thread returned on request_exit after two whole chunks
C20_Witness ==
  /\ client = "mic"
  /\ request_exit
  /\ Call(0).gen_pc = "returned"
  /\ Len(Call(0).writes) = 4
  /\ Call(0).writes[3].size = ChunkSize(Call(0))
  /\ Call(0).writes[4].kind = "writes_done"

\* ------------------------------------------------------------------ C21
\* the clock reading at which the pacing decision of chunk i was taken
C21_DecidedAt(call, i) == call.start_time + call.sleeps[i].diff_time

\* C21: the file writer never sleeps a negative or zero amount: before a
\* chunk it sleeps only in realtime mode and only when the computed remainder
\* is strictly positive, for a positive number of microseconds; at or behind
\* its target time the chunk is sent at once; with realtime pacing off no
\* chunk is preceded by a sleep.
C21_NoNonPositiveSleep ==
  \A c \in CorrIds :
    LET call == Call(c) IN
      client = "pacer" =>
        /\ Len(call.sleeps) = Len(call.send_times)
        /\ \A i \in 1..Len(call.sleeps) :
             LET pace == call.sleeps[i] IN
               /\ pace.slept => (simulate_realtime_ /\ pace.wait_time > 0
                                   /\ pace.usecs > 0)
               /\ ~simulate_realtime_ => ~pace.slept
               /\ (simulate_realtime_ /\ pace.wait_time <= 0) =>
                    (~pace.slept /\ call.send_times[i] = C21_DecidedAt(call, i))
               /\ pace.slept =>
                    call.send_times[i] =
                      C21_DecidedAt(call, i) + pace.usecs * TicksPerUs

\* a realtime writer slept one microsecond before its first chunk and sent a
\* later chunk at once because it was behind
C21_Witness ==
  /\ client = "pacer"
  /\ simulate_realtime_
  /\ Len(Call(0).sleeps) >= 2
  /\ Call(0).sleeps[1].slept
  /\ Call(0).sleeps[1].usecs = 1
  /\ \E i \in 2..Len(Call(0).sleeps) :
       /\ Call(0).sleeps[i].wait_time < 0
       /\ ~Call(0).sleeps[i].slept

\* ------------------------------------------------------------------ C22
C22_Max0(x) == IF x > 0 THEN x ELSE 0

C22_Abs(x) == IF x < 0 THEN 0 - x ELSE x

\* the time, in ticks, the writer slept before chunk i (1-based in the history)
C22_Slept(call, i) == call.send_times[i] - C21_DecidedAt(call, i)

\* the duration of chunk i in whole milliseconds, from what was written
C22_ChunkMs(call, i) ==
  LET w == C17_AudioWrites(call)[i]
      samples == (w.size - (IF w.offset = 0 THEN HeaderSize ELSE 0)) \div SampleBytes
  IN (1000 * samples) \div call.sample_rate

\* slept is remainder, clamped at 0, to the nearest microsecond
C22_SleepIs(slept, remainder) ==
  /\ slept % TicksPerUs = 0
  /\ 2 * C22_Abs(slept - C22_Max0(remainder)) <= TicksPerUs

\* C22 as stated: in realtime mode the sleep before the chunk with
\* zero-based index i is max(0, i x chunk_duration_ms - elapsed), elapsed
\* being the time since the writer's start_time.
C22_SleepToIndexTimesDuration ==
  \A c \in CorrIds :
    LET call == Call(c) IN
      (client = "pacer" /\ simulate_realtime_) =>
        \A i \in 1..Len(call.sleeps) :
          C22_SleepIs(C22_Slept(call, i),
                      (i - 1) * ChunkDurationMs * TicksPerMs
                        - call.sleeps[i].diff_time)

\* C22 amended: in realtime mode the target send time of the chunk with
\* zero-based index i is i x chunk_duration_ms plus the duration of chunk i
\* itself (in whole milliseconds) after the writer's start_time: the sleep
\* before sending chunk i is max(0, i x chunk_duration_ms + duration_i -
\* elapsed), to the nearest microsecond.
C22_SleepToChunkEnd ==
  \A c \in CorrIds :
    LET call == Call(c) IN
      (client = "pacer" /\ simulate_realtime_) =>
        \A i \in 1..Len(call.sleeps) :
          C22_SleepIs(C22_Slept(call, i),
                      ((i - 1) * ChunkDurationMs + C22_ChunkMs(call, i)) * TicksPerMs
                        - call.sleeps[i].diff_time)

\* chunk 0 of a one-millisecond chunk schedule was sent a millisecond after
\* the start, and chunk 1, decided half a microsecond before the second
\* millisecond, after a sleep of one microsecond
C22_Witness ==
  /\ client = "pacer"
  /\ simulate_realtime_
  /\ Len(Call(0).sleeps) >= 2
  /\ Call(0).sleeps[1].diff_time = 0
  /\ C22_Slept(Call(0), 1) = TicksPerMs
  /\ Call(0).sleeps[2].diff_time = 2 * TicksPerMs - 2
  /\ C22_Slept(Call(0), 2) = TicksPerUs

\* ------------------------------------------------------------------ C23
\* a step in which the writer of call c writes an audio chunk although the
\* cancellation flag was already set when the step began
C23_WritesWhileCancelled(c) ==
  /\ client \in {"pacer", "mic"}
  /\ request_exit
  /\ Call(c).gen_pc \in {"chunk", "mic"}
  /\ c + 1 <= Len(calls')
  /\ Len(calls'[c + 1].writes) > Len(Call(c).writes)

C23_Step ==
  \A c \in CorrIds :
    C23_WritesWhileCancelled(c) =>
      LET after == calls'[c + 1] IN
        /\ C17_WriterFinished(after)
        /\ after.writes[Len(after.writes)].kind = "writes_done"
        /\ Cardinality(C20_Done(after)) = 1

\* C23: once the shared cancellation flag is true while a streaming writer
\* (file pacer or microphone writer) still has chunks to send, the writer
\* sends at most the chunk it has already read, drops the rest of the
\* schedule and signals end-of-stream exactly once.
C23_CancelEndsStream == [][C23_Step]_vars

\* ------------------------------------------------------------------ C24
\* C24: in streaming-from-file mode with limit L the slot of a stream is
\* released only when its ReceiveResponses has finished: the number of
\* streams started and not yet finished never exceeds L, so payload L + 1 is
\* not started before one of the first L streams has completed.
C24_SlotHeldUntilTerminal ==
  client = "streaming" =>
    /\ num_streams_started_ - num_streams_finished_ <= parallel_requests
    /\ (num_streams_started_ > parallel_requests => num_streams_finished_ >= 1)

\* ------------------------------------------------------------------ C25
\* C25: in streaming mode a stream whose Finish returns a non-OK status is
\* counted as failed and the run still starts and finishes every remaining
\* stream; the latency statistics are computed and printed only if no
\* stream of the run failed.
C25_StatsOnlyWithoutFailure ==
  (client = "streaming" /\ main_pc = "exited" /\ print_stats_rc # NoExit) =>
    /\ num_streams_started_ = all_wav_max
    /\ num_streams_finished_ = all_wav_max
    /\ BagCardinality(succeeded_log) + BagCardinality(failed_log) = all_wav_max
    /\ failed_log # EmptyBag => (print_stats_rc = 1 /\ printed = <<>>)

\* ------------------------------------------------------------------ C26
\* a registration either adds a new id and counts one request or changes
\* neither the tracked set nor the counter
C26_Step ==
  \/ UNCHANGED <<curr_tasks_, num_requests_>>
  \/ /\ Cardinality(curr_tasks_') = Cardinality(curr_tasks_) + 1
     /\ num_requests_' = num_requests_ + 1

\* C26: registering a correlation id that is already tracked fails and
\* leaves the tracked set and the request counter unchanged (a duplicate is
\* never silently accepted or ignored), so while no call completes the
\* counter equals the number of tracked ids.
C26_DuplicateRejected ==
  [][client = "track" => (C26_Step /\ num_requests_' = Cardinality(curr_tasks_'))]_vars

\* ------------------------------------------------------------------ C27
\* main() waits in thread_.join() for an AsyncCompleteRpc that waits in
\* cq_.Next() while no call is outstanding: nothing can wake either
C27_Blocked ==
  /\ main_pc = "join"
  /\ rpc_pc = "next"
  /\ cq_ = <<>>
  /\ pending = {}

\* C27: when the input set is empty (no audio file, no non-empty query line,
\* or an iteration count of 0, so that the number of payloads is 0) every
\* client terminates with exit code 1 and dispatches no call.
C27_EmptyInputExitsOne ==
  num_files * num_iterations = 0 =>
    /\ num_requests_ = 0
    /\ num_streams_started_ = 0
    /\ ~C27_Blocked
    /\ main_pc = "exited" => exit_code = 1

\* ------------------------------------------------------------------ C28
\* the configuration errors of the claim, read off the inputs of the run
C28_ConfigError ==
  \/ ~startup.reachable
  \/ /\ client = "streaming_main"
     /\ ~startup.audio_file
     /\ startup.audio_device
     /\ \/ parallel_requests # 1
        \/ ~interim_results_
        \/ ~print_transcripts_
        \/ simulate_realtime_
        \/ num_iterations # 1
  \/ /\ client = "streaming_main"
     /\ ~startup.audio_file
     /\ ~startup.audio_device
  \/ /\ client = "nlp_main"
     /\ startup.output
     /\ parallel_requests > 1

\* C28: every configuration error (endpoint not connected by the deadline,
\* incompatible flag combination, no input source) is detected before the
\* first call is dispatched and makes the process exit non-zero.
C28_ConfigErrorsFatal ==
  (client \in {"streaming_main", "nlp_main"} /\ C28_ConfigError) =>
    /\ main_pc # "dispatch"
    /\ main_pc = "exited" => (exit_code # NoExit /\ exit_code # 0)

\* ------------------------------------------------------------------ C29
\* C29: after each response frame has been fully processed by
\* ReceiveResponses, |recv_times| = |recv_final_flags| = the number of frames
\* received so far (one timestamp and one flag per frame, not per fragment),
\* and flag k is true iff at least one fragment of frame k was final (false
\* for a frame without fragments).
C29_OneFlagPerFrame ==
  \A c \in CorrIds :
    LET call == Call(c) IN
      client = "aggregate" =>
        /\ Len(call.recv_times) = Len(call.responses)
        /\ call.recv_pc = "read" =>
             /\ Len(call.recv_final_flags) = Len(call.responses)
             /\ \A k \in 1..Len(call.responses) :
                  call.recv_final_flags[k] =
                    (\E r \in 1..Len(call.responses[k]) :
                       call.responses[k][r].is_final)
        /\ call.recv_pc = "results" =>
             Len(call.recv_final_flags) = Len(call.responses) - 1

\* a frame of two fragments, the first final and the second not, and then a
\* frame without fragments were processed: the flags are true, false
C29_Witness ==
  /\ client = "aggregate"
  /\ Call(0).recv_pc = "read"
  /\ Len(Call(0).responses) = 2
  /\ Len(Call(0).responses[1]) = 2
  /\ Call(0).responses[1][1].is_final
  /\ ~Call(0).responses[1][2].is_final
  /\ Call(0).responses[2] = <<>>
  /\ Call(0).recv_final_flags = <<TRUE, FALSE>>
  /\ Len(Call(0).recv_times) = 2

\* ------------------------------------------------------------------ C30
\* one send time per audio chunk written so far, none for the configuration
\* frame; entry k was taken when chunk k was due to be written
C30_State ==
  \A c \in CorrIds :
    LET call == Call(c) IN
      client \in {"pacer", "mic"} =>
        /\ Len(call.send_times) = Len(C17_AudioWrites(call))
        /\ \A k \in 2..Len(call.send_times) :
             call.send_times[k - 1] <= call.send_times[k]
        /\ client = "pacer" =>
             \A k \in 1..Len(call.send_times) :
               /\ call.send_times[k] >= C21_DecidedAt(call, k)
               /\ call.send_times[k] <= steady_clock

\* send_times only grows, by one entry in a step that writes an audio chunk
C30_Step ==
  \A c \in CorrIds :
    (client \in {"pacer", "mic"} /\ c + 1 <= Len(calls')) =>
      LET before == Call(c)
          after == calls'[c + 1]
          chunks == Len(C17_AudioWrites(after)) - Len(C17_AudioWrites(before))
      IN /\ chunks \in {0, 1}
         /\ Len(after.send_times) = Len(before.send_times) + chunks
         /\ SubSeq(after.send_times, 1, Len(before.send_times)) = before.send_times

\* C30: exactly one send timestamp is appended per audio chunk and none for
\* the configuration frame: send_times is append-only, its k-th entry belongs
\* to the k-th audio chunk, and when the writer has finished |send_times| is
\* the number of audio chunks written.
C30_OneSendTimePerChunk == []C30_State /\ [][C30_Step]_vars

\* a realtime writer finished a file sent as config and three chunks, with
\* three send times a millisecond apart
C30_Witness ==
  /\ client = "pacer"
  /\ simulate_realtime_
  /\ C17_WriterFinished(Call(0))
  /\ Len(Call(0).writes) = 5
  /\ Len(C17_AudioWrites(Call(0))) = 3
  /\ Call(0).send_times = <<TicksPerMs, 2 * TicksPerMs, 3 * TicksPerMs>>

\* ------------------------------------------------------------------ C31
\* Read() has just returned a frame without fragments
C31_EmptyFrameStep ==
  /\ client = "aggregate"
  /\ Call(0).recv_pc = "read"
  /\ Len(calls') = Len(calls)
  /\ calls'[1].recv_pc = "results"
  /\ calls'[1].response = <<>>

C31_Step ==
  C31_EmptyFrameStep => calls'[1].latest_result_ = Call(0).latest_result_

\* C31: a response frame that carries zero fragments leaves the call's
\* aggregated result unchanged: the partial text and partial tokens are
\* reset only by a frame with at least one fragment, and the final
\* accumulators are untouched by an empty frame.
C31_EmptyFrameKeepsResult == [][C31_Step]_vars

\* ------------------------------------------------------------------ C32
\* the ids whose slot the completion thread has released
C32_Released ==
  {c \in 0..(all_query_max - 1) :
     /\ BagIn(c, succeeded_log (+) failed_log)
     /\ ~(rpc_pc = "erase" /\ got_call.id = c)}

C32_State ==
  Unary =>
    /\ num_requests_ = all_query_i
    /\ Cardinality(curr_tasks_) = num_requests_ - num_responses_
    /\ curr_tasks_ = (0..(all_query_i - 1)) \ C32_Released
    /\ num_responses_ = Cardinality(C32_Released)

\* an id is inserted only while absent, erased only while present
C32_Step ==
  Unary =>
    /\ \A c \in curr_tasks_' \ curr_tasks_ :
         /\ c = all_query_i
         /\ num_requests_' = num_requests_ + 1
    /\ num_requests_' # num_requests_ =>
         /\ all_query_i \notin curr_tasks_
         /\ curr_tasks_' = curr_tasks_ \cup {all_query_i}
    /\ num_responses_' # num_responses_ =>
         /\ got_call.id \in curr_tasks_
         /\ curr_tasks_' = curr_tasks_ \ {got_call.id}

\* C32: the dispatch loop of the unary clients assigns pairwise-distinct
\* correlation ids 0..N-1, each used once, and whenever mutex_ is not held
\* |curr_tasks_| = num_requests_ - num_responses_: the tracked set is exactly
\* the set of dispatched and not yet completed calls, no id is inserted while
\* already present and none is erased while absent.
C32_TrackedSetExact == []C32_State /\ [][C32_Step]_vars

\* three calls dispatched, the first completed and released, two in flight
C32_Witness ==
  /\ Unary
  /\ num_requests_ = 3
  /\ num_responses_ = 1
  /\ curr_tasks_ = {1, 2}

\* ------------------------------------------------------------------ C33
\* the writer of the call has added its audio_processed to the total
C33_Accounted(call) == call.gen_pc \in {"release", "done"}

\* C33: when DoStreamingFromFile prints the run summary (total audio
\* processed and throughput), total_audio_processed_ already holds the
\* contribution of every started stream: every GenerateRequests task has
\* added its audio_processed before the main loop observes
\* NumStreamsFinished() == N, for every interleaving of writers, readers and
\* the main loop.
C33_TotalCompleteAtSummary ==
  (client = "streaming" /\ main_pc = "stats") =>
    /\ Len(calls) = all_wav_max
    /\ \A c \in CorrIds : C33_Accounted(Call(c))

\* ------------------------------------------------------------------ C34
\* the step in which the reader of call c runs PostProcessResults
C34_PostProcessStep(c) ==
  /\ client = "streaming"
  /\ c + 1 <= Len(calls')
  /\ Call(c).recv_pc = "finish"
  /\ calls'[c + 1].recv_pc = "count"
  /\ succeeded_log' # succeeded_log

\* the writer of the call will append no further send time
C34_WriterAppendsNoMore(call) == call.gen_pc \in {"account", "release", "done"}

C34_Step ==
  \A c \in CorrIds : C34_PostProcessStep(c) => C34_WriterAppendsNoMore(Call(c))

\* C34: PostProcessResults reads a call's send_times only after that call's
\* GenerateRequests has appended its last send timestamp, so the reader task
\* never reads send_times while the writer task is still appending to it,
\* for every remote behaviour, including a remote that ends the response
\* stream with an OK status before the writer has sent all chunks.
C34_SendTimesReadAfterWriter == [][C34_Step]_vars

\* ------------------------------------------------------------------ C35
\* a step of the writer that writes an audio frame moves offset forward
C35_Step ==
  \A c \in CorrIds :
    (client = "drain" /\ c + 1 <= Len(calls')
       /\ Len(C17_AudioWrites(calls'[c + 1])) > Len(C17_AudioWrites(Call(c))))
      => calls'[c + 1].offset >= Call(c).offset + 1

\* the writer task has returned and given its slot back
C35_Released ==
  client = "drain" => (Call(0).gen_pc = "done" /\ num_active_streams_ = 0)

\* C35: the stream writer terminates for every finite payload and every
\* configured chunk duration and sample rate: each audio frame written
\* advances stream->offset by at least one byte, so offset reaches
\* data.size() after finitely many frames and the task releases its slot
\* (num_active_streams_--).
C35_WriterTerminates == [][C35_Step]_vars /\ <>C35_Released

\* ------------------------------------------------------------------ C36
\* the scheduler runs every thread that can take a step, and the remote ends
\* every stream: Read() returns false after finitely many frames
FairSpecStream ==
  /\ SpecStream
  /\ WF_vars(StreamMainNext)
  /\ WF_vars(WorkerDequeue)
  /\ WF_vars(GenerateRequests)
  /\ WF_vars(ReceiveResponses)

\* DoStreamingFromFile has left its loop
C36_LoopLeft ==
  client = "streaming" /\ (main_pc = "stats" \/ (main_pc = "exited" /\ num_files > 0))

C36_State ==
  client = "streaming" =>
    /\ Len(calls) = num_streams_started_
    /\ num_streams_started_ = all_wav_i
    /\ \A c \in CorrIds : Call(c).corr_id = c
    /\ C36_LoopLeft =>
         /\ num_streams_started_ = all_wav_max
         /\ num_streams_finished_ = all_wav_max
         /\ \A c \in CorrIds : Call(c).recv_pc = "done"
         /\ BagToSet(succeeded_log) \cup BagToSet(failed_log) = 0..(all_wav_max - 1)

C37_Dequeued(kind, id) ==
  \E k \in 1..Len(thread_pool_.dequeued) :
    thread_pool_.dequeued[k] = [kind |-> kind, id |-> id]

C37_Queued(kind, id) ==
  \E k \in 1..Len(tasks_) : tasks_[k] = [kind |-> kind, id |-> id]

\* the worker runs a read task whose write task is still in the queue
C37_ReadsAheadOfWrite(w) ==
  LET worker == thread_pool_.threads_[w] IN
    /\ worker.pc = "run"
    /\ worker.task.kind = "recv"
    /\ C37_Queued("gen", worker.task.id)

\* the worker can take a step without any other worker taking one first
C37_CanStep(w) ==
  LET worker == thread_pool_.threads_[w] IN
    \/ worker.pc = "account"
    \/ worker.pc = "run" /\ worker.task.kind = "gen"
    \/ worker.pc = "run" /\ worker.task.kind = "recv"
         /\ Finished("gen", worker.task.id)
    \/ worker.pc = "wait" /\ tasks_ # <<>>

\* C37: the streaming worker pool cannot deadlock on its own tasks: with
\* 4 x L workers, a FIFO task queue and at most L active streams, the write
\* task of each stream is dequeued before its read task, so no reachable
\* state has every worker occupied by read tasks that wait on write tasks
\* still sitting in the queue; while a task is queued or running some worker
\* can step.
C37_NoPoolDeadlock ==
  client = "pool_stream" =>
    /\ Len(thread_pool_.threads_) = 4 * parallel_requests
    /\ num_active_streams_ <= parallel_requests
    /\ \A c \in 0..(num_streams_started_ - 1) :
         C37_Dequeued("recv", c) => C37_Dequeued("gen", c)
    /\ \A w \in Workers : ~C37_ReadsAheadOfWrite(w)
    /\ (tasks_ # <<>> \/ \E w \in Workers : thread_pool_.threads_[w].pc # "wait")
         => \E w \in Workers : C37_CanStep(w)

\* every worker is occupied by a read task whose remote has not yet ended the
\* stream while the two tasks of the next stream sit in the queue
C37_Witness ==
  /\ client = "pool_stream"
  /\ \A w \in Workers :
       /\ thread_pool_.threads_[w].pc = "run"
       /\ thread_pool_.threads_[w].task.kind = "recv"
  /\ Len(tasks_) = 2
  /\ tasks_[1].kind = "gen"

\* ------------------------------------------------------------------ C38
C38_Job(i) == [kind |-> "job", id |-> i]

C38_Accepted(i) ==
  \E k \in 1..Len(thread_pool_.accepted) : thread_pool_.accepted[k] = C38_Job(i)

\* workers running task(), and workers between the end of task() and
\* outstanding_tasks_--
C38_Running == Cardinality({w \in Workers : thread_pool_.threads_[w].pc = "run"})
C38_Unaccounted ==
  Cardinality({w \in Workers : thread_pool_.threads_[w].pc = "account"})

\* tasks are popped in the order they were accepted, each once; a task ends
\* only after it was popped; the destructor has returned only when every
\* accepted task has run and every worker has returned
C38_Order ==
  client = "pool" =>
    /\ C16_IsPrefix(thread_pool_.dequeued, thread_pool_.accepted)
    /\ thread_pool_.accepted = thread_pool_.dequeued \o tasks_
    /\ \A i, j \in 1..Len(thread_pool_.accepted) :
         thread_pool_.accepted[i] = thread_pool_.accepted[j] => i = j
    /\ \A t \in thread_pool_.finished :
         \E k \in 1..Len(thread_pool_.dequeued) : thread_pool_.dequeued[k] = t
    /\ Cardinality(thread_pool_.finished) + C38_Running
         = Len(thread_pool_.dequeued)
    /\ main_pc = "pool_destroyed" =>
         /\ tasks_ = <<>>
         /\ thread_pool_.dequeued = thread_pool_.accepted
         /\ Cardinality(thread_pool_.finished) = Len(thread_pool_.accepted)
         /\ \A w \in Workers : thread_pool_.threads_[w].pc = "returned"

\* Enqueue on a stopped pool adds nothing and counts nothing
C38_Step ==
  (client = "pool" /\ thread_pool_.stop_) =>
    /\ Len(tasks_') <= Len(tasks_)
    /\ thread_pool_'.accepted = thread_pool_.accepted
    /\ thread_pool_'.outstanding_tasks_ <= thread_pool_.outstanding_tasks_
    /\ Len(thread_pool_'.rejected) > Len(thread_pool_.rejected) =>
         UNCHANGED <<tasks_, main_pc>>

C38_Executed ==
  \A i \in 0..(MaxJobs - 1) :
    (client = "pool" /\ C38_Accepted(i)) ~> (C38_Job(i) \in thread_pool_.finished)

C38_CounterExact ==
  client = "pool" =>
    /\ thread_pool_.outstanding_tasks_ = Len(tasks_) + C38_Running
    /\ thread_pool_.outstanding_tasks_ >= 0

C38_CounterUpToAccounting ==
  client = "pool" =>
    /\ thread_pool_.outstanding_tasks_ = Len(tasks_) + C38_Running + C38_Unaccounted
    /\ thread_pool_.outstanding_tasks_ >= 0

\* C38 as stated: every task accepted by ThreadPool::Enqueue is executed
\* exactly once by some worker, tasks are dequeued in the order they were
\* enqueued, and the destructor returns only after every task queued before
\* destruction has run; Enqueue on a stopped pool throws and adds nothing to
\* the queue; outstanding_tasks_ always equals the number of queued plus
\* running tasks and is never negative.
C38_PoolRunsEveryTaskOnce ==
  []C38_Order /\ [][C38_Step]_vars /\ C38_Executed /\ []C38_CounterExact

\* C38 amended: as stated, except that outstanding_tasks_ equals the number
\* of queued tasks plus the tasks a worker has popped and not yet counted
\* down: the running ones and those whose task() has returned while the
\* worker has not yet executed outstanding_tasks_--.
C38_PoolRunsEveryTaskOnceCounted ==
  []C38_Order /\ [][C38_Step]_vars /\ C38_Executed /\ []C38_CounterUpToAccounting

\* the pool was destroyed after two jobs were accepted and run, a third
\* Enqueue was refused by the stopped pool, and the counter is back at 0
C38_Witness ==
  /\ client = "pool"
  /\ main_pc = "pool_destroyed"
  /\ Len(thread_pool_.accepted) = 2
  /\ Cardinality(thread_pool_.finished) = 2
  /\ Len(thread_pool_.rejected) = 1
  /\ thread_pool_.outstanding_tasks_ = 0

\* ------------------------------------------------------------------ C39
\* the loop over the results of the frame is over and the live line
\* final_transcripts[0] + partial_transcript is about to be printed
C39_PrintsLiveLine(call) ==
  /\ call.recv_pc = "results"
  /\ call.result_r > Len(call.response)
  /\ Len(call.response) > 0
  /\ interim_results_
  /\ print_transcripts_

\* C39: whenever ReceiveResponses prints the interim transcript for a frame
\* (the frame has at least one fragment and interim_results_ and
\* print_transcripts_ are both on), latest_result_.final_transcripts has at
\* least one element, so the read of final_transcripts[0] is in bounds for
\* every sequence of fragments, final fragments with zero alternatives
\* included.
C39_LiveLineInBounds ==
  \A c \in CorrIds :
    (client = "aggregate" /\ C39_PrintsLiveLine(Call(c)))
      => Len(Call(c).latest_result_.final_transcripts) >= 1

\* ------------------------------------------------------------------ C40
\* main() is at the report and no request failed: PrintStats() is called next
C40_CallsPrintStats == Unary /\ main_pc = "report" /\ num_failed_requests_ = 0

\* C40: the unary clients never compute percentiles on an empty sample set:
\* on every path on which PrintStats of the unary ASR or NLP client is
\* invoked, latencies_ contains at least one sample.
C40_PrintStatsHasSamples ==
  /\ C40_CallsPrintStats => Len(latencies_) >= 1
  /\ (Unary /\ stats_printed) => (Len(latencies_) >= 1 /\ Len(printed) = 1)

\* PrintStats was called at the end of a run of one request, on one sample
C40_Witness ==
  /\ Unary
  /\ main_pc = "exited"
  /\ stats_printed
  /\ num_requests_ = 1
  /\ Len(latencies_) = 1

====
